---- MODULE Spec2Model ----
(***************************************************************************)
(* Model of the NHANES amalgam / inflammation-marker pipeline:             *)
(*   descriptive_stats.py  process_cycles, weighted_stats,                 *)
(*                         count_amalgam_surfaces, categorize_amalgam      *)
(*   analysis.py           prepare_groups, run_t_tests, main               *)
(*   drinker_analysis.py   process_with_drinking, run_drinking_ttests,     *)
(*                         compute_drinking_descriptive                    *)
(*   smoker_analysis.py    process_with_smoking, run_smoking_ttests,       *)
(*                         compute_smoking_descriptive                     *)
(*   regression_models.py  fit_cubic_spline, fit_logistic, run_models      *)
(*   box_plots.py          main                                            *)
(*                                                                         *)
(* Floating point values are modelled as exact rationals with the IEEE     *)
(* special values NaN and +/-inf; np.sqrt is evaluated on a 1e-4 grid and  *)
(* round(x, 3) by long division, so that every number stays inside the     *)
(* 32 bit integers of the model checker.                                   *)
(***************************************************************************)
EXTENDS Integers, Sequences, FiniteSets, TLC

VARIABLES
    files,          \* the data directory: cycle -> the three source tables
    pc,             \* position of main(): process_cycles loop, concat, ...
    idx,            \* index into the registry of the next cycle of the loop
    df_all,         \* process_cycles: list of per-cycle merged frames
    all_summaries,  \* process_cycles: list of summary rows
    skipped,        \* cycles reported by print("Skipped ...")
    combined,       \* the combined table (after pd.concat / prepare_groups)
    ttest,          \* rows returned by run_t_tests / run_*_ttests
    quest,          \* what the questionnaire variant read: log, tables, order
    out,            \* what the program run after process_cycles produced
    call            \* last call of a pure function: [fn, arg, ret]

vars ==
    <<files, pc, idx, df_all, all_summaries, skipped, combined, ttest, quest, out,
      call>>

pipeVars ==
    <<files, pc, idx, df_all, all_summaries, skipped, combined, ttest, quest, out>>

----------------------------------------------------------------------------
(* Floating point values *)

NaN == [k |-> "nan"]

PosInf == [k |-> "inf", s |-> 1]

NegInf == [k |-> "inf", s |-> -1]

Abs(i) == IF i < 0 THEN -i ELSE i

Sign(i) == IF i < 0 THEN -1 ELSE IF i = 0 THEN 0 ELSE 1

RECURSIVE GCD(_, _)
GCD(a, b) == IF b = 0 THEN a ELSE GCD(b, a % b)

\* the rational n/d in lowest terms, d > 0
Q(n, d) ==
    LET g == GCD(Abs(n), Abs(d))
        s == IF d < 0 THEN -1 ELSE 1
    IN  [k |-> "num", n |-> s * (n \div g), d |-> s * (d \div g)]

Num(i) == [k |-> "num", n |-> i, d |-> 1]

IsNaN(a) == a.k = "nan"

IsNum(a) == a.k = "num"

IsInf(a) == a.k = "inf"

IsZero(a) == a.k = "num" /\ a.n = 0

FSign(a) == IF a.k = "inf" THEN a.s ELSE Sign(a.n)

InfOf(s) == IF s < 0 THEN NegInf ELSE PosInf

FNeg(a) ==
    CASE a.k = "nan" -> NaN
      [] a.k = "inf" -> InfOf(-a.s)
      [] OTHER -> Q(-a.n, a.d)

FAdd(a, b) ==
    CASE a.k = "nan" \/ b.k = "nan" -> NaN
      [] a.k = "inf" /\ b.k = "inf" -> IF a.s = b.s THEN a ELSE NaN
      [] a.k = "inf" -> a
      [] b.k = "inf" -> b
      [] OTHER -> Q(a.n * b.d + b.n * a.d, a.d * b.d)

FSub(a, b) == FAdd(a, FNeg(b))

FMul(a, b) ==
    CASE a.k = "nan" \/ b.k = "nan" -> NaN
      [] a.k = "inf" \/ b.k = "inf" ->
            IF FSign(a) * FSign(b) = 0 THEN NaN ELSE InfOf(FSign(a) * FSign(b))
      [] OTHER -> Q(a.n * b.n, a.d * b.d)

\* IEEE division as numpy / pandas perform it: x/0 is +/-inf, 0/0 is NaN
FDiv(a, b) ==
    CASE a.k = "nan" \/ b.k = "nan" -> NaN
      [] a.k = "inf" /\ b.k = "inf" -> NaN
      [] a.k = "inf" -> InfOf(a.s * (IF FSign(b) < 0 THEN -1 ELSE 1))
      [] b.k = "inf" -> Num(0)
      [] b.n = 0 -> IF a.n = 0 THEN NaN ELSE InfOf(Sign(a.n))
      [] OTHER -> Q(a.n * b.d, a.d * b.n)

FLeq(a, b) ==
    CASE a.k = "nan" \/ b.k = "nan" -> FALSE
      [] a.k = "inf" /\ b.k = "inf" -> a.s <= b.s
      [] a.k = "inf" -> a.s < 0
      [] b.k = "inf" -> b.s > 0
      [] OTHER -> a.n * b.d <= b.n * a.d

FLess(a, b) ==
    CASE a.k = "nan" \/ b.k = "nan" -> FALSE
      [] a.k = "inf" /\ b.k = "inf" -> a.s < b.s
      [] a.k = "inf" -> a.s < 0
      [] b.k = "inf" -> b.s > 0
      [] OTHER -> a.n * b.d < b.n * a.d

\* floor(r * 10^digits / d) for 0 <= r < d, by long division
RECURSIVE LongDiv(_, _, _, _)
LongDiv(r, d, digits, acc) ==
    IF digits = 0 THEN acc
    ELSE LongDiv((r * 10) % d, d, digits - 1, acc * 10 + ((r * 10) \div d))

\* floor(n/d * 10^digits) for n >= 0
Scaled(n, d, digits) == LongDiv(n % d, d, digits, n \div d)

RECURSIVE Pow10(_)
Pow10(e) == IF e = 0 THEN 1 ELSE 10 * Pow10(e - 1)

\* r is a lower bound of the square root of x (46340 = floor(sqrt(2^31)))
SqrtFits(r, x) == r <= 46340 /\ r * r <= x

\* the largest digit c in 0..15 for which base + c * step still fits
SqrtDigit(x, base, step) ==
    CHOOSE c \in 0..15 :
        /\ SqrtFits(base + c * step, x)
        /\ c = 15 \/ ~SqrtFits(base + (c + 1) * step, x)

\* base with its next hexadecimal digit added
SqrtStep(x, base, step) == base + step * SqrtDigit(x, base, step)

\* largest r in 0..46340 with r*r <= x, one hexadecimal digit at a time
ISqrt(x) == SqrtStep(x, SqrtStep(x, SqrtStep(x, SqrtStep(x, 0, 4096), 256), 16), 1)

\* decimals kept by the square root: about nine significant digits of the
\* radicand, whatever its magnitude
SqrtDigits(a) ==
    IF a.n \div a.d < 20 THEN 4 ELSE IF a.n \div a.d < 2000 THEN 3 ELSE 2

\* np.sqrt, evaluated to SqrtDigits(a) decimals
FSqrt(a) ==
    CASE a.k = "nan" -> NaN
      [] a.k = "inf" -> IF a.s > 0 THEN PosInf ELSE NaN
      [] a.n < 0 -> NaN
      [] OTHER -> Q(ISqrt(Scaled(a.n, a.d, 2 * SqrtDigits(a))),
                    Pow10(SqrtDigits(a)))

RoundDigits == 3

\* round(x, digits): the nearest multiple of 10^-digits, a tie going to the
\* even one
round_to(a, digits) ==
    IF a.k # "num" THEN a
    ELSE LET m == Abs(a.n)
             fl == Scaled(m, a.d, digits)
             \* remainder of m * 10^digits modulo d, again by long division
             rem == LET RECURSIVE R(_, _)
                        R(r, k) == IF k = 0 THEN r ELSE R((r * 10) % a.d, k - 1)
                    IN  R(m % a.d, digits)
             up == 2 * rem > a.d \/ (2 * rem = a.d /\ fl % 2 = 1)
         IN  Q(Sign(a.n) * (IF up THEN fl + 1 ELSE fl), Pow10(digits))

\* round(x, 3)
FRound(a) == round_to(a, RoundDigits)

----------------------------------------------------------------------------
(* Sequences of floats *)

\* the sum of a sequence, added pairwise as np.sum does (the rationals make
\* the order of the additions immaterial)
RECURSIVE FSum(_)
FSum(s) ==
    IF s = <<>> THEN Num(0)
    ELSE IF Len(s) = 1 THEN FAdd(s[1], Num(0))
    ELSE FAdd(FSum(SubSeq(s, 1, Len(s) \div 2)),
              FSum(SubSeq(s, Len(s) \div 2 + 1, Len(s))))

\* the concatenation of a sequence of sequences
RECURSIVE Flatten(_)
Flatten(ss) ==
    IF ss = <<>> THEN <<>>
    ELSE IF Len(ss) = 1 THEN ss[1]
    ELSE Flatten(SubSeq(ss, 1, Len(ss) \div 2))
           \o Flatten(SubSeq(ss, Len(ss) \div 2 + 1, Len(ss)))

----------------------------------------------------------------------------
(* descriptive_stats.py: weighted_stats *)

\* np.average(a, weights=w) with axis=None: TypeError when the shapes differ,
\* ZeroDivisionError when the weights sum to zero
np_average(a, w) ==
    IF Len(a) # Len(w) THEN [err |-> "TypeError"]
    ELSE IF IsZero(FSum(w)) THEN [err |-> "ZeroDivisionError"]
    ELSE [err |-> "",
          v |-> FDiv(FSum([i \in 1..Len(a) |-> FMul(a[i], w[i])]), FSum(w))]

SqDev(series, mean) ==
    [i \in 1..Len(series) |-> FMul(FSub(series[i], mean), FSub(series[i], mean))]

\* pandas Series.mean()
series_mean(series) == FDiv(FSum(series), Num(Len(series)))

\* pandas Series.var(): ddof = 1
series_var(series) ==
    FDiv(FSum(SqDev(series, series_mean(series))), Num(Len(series) - 1))

\* the try block of weighted_stats: both np.average calls
weighted_try(series, weights) ==
    LET m == np_average(series, weights)
    IN  IF m.err # "" THEN m
        ELSE LET v == np_average(SqDev(series, m.v), weights)
             IN  IF v.err # "" THEN v
                 ELSE [err |-> "", mean |-> m.v, variance |-> v.v]

\* mutant of weighted_or_fallback: no except clause, the exception escapes
weighted_no_except(series, weights) == weighted_try(series, weights)

\* the except clause: "except Exception" catches whatever the try block raised
weighted_or_fallback(series, weights) ==
    LET t == weighted_try(series, weights)
    IN  IF t.err = "" THEN t
        ELSE [err |-> "", mean |-> series_mean(series),
              variance |-> series_var(series)]

\* mutant of se_count: the sum of the weights in place of the sample count
se_count_weights(series, weights) == FSum(weights).n

\* the sample count that enters the standard error
se_count(series, weights) == Len(series)

Z95 == Q(196, 100)

\* line 52: the rounded mean and deviation with the interval mean -+ half
interval_record(mean, std, half) ==
    [exc |-> "",
     mean |-> FRound(mean),
     std |-> FRound(std),
     lo |-> FRound(FSub(mean, half)),
     hi |-> FRound(FAdd(mean, half))]

\* lines 49-52: the standard error std / sqrt(n) and the 95% interval
stats_record(mean, std, n) ==
    interval_record(mean, std, FMul(Z95, FDiv(std, FSqrt(Num(n)))))

\* lines 48-52 on the mean and variance t of n observations
stats_of(t, n) ==
    IF t.err # "" THEN [exc |-> t.err]
    ELSE stats_record(t.mean, FSqrt(t.variance), n)

weighted_stats(series, weights) ==
    stats_of(weighted_or_fallback(series, weights), se_count(series, weights))

----------------------------------------------------------------------------
(* descriptive_stats.py: categorize_amalgam;  analysis.py: prepare_groups *)

Lab(s) == [k |-> "str", s |-> s]

\* mutant of categorize_amalgam: the Low band ends below 5
categorize_amalgam_lt5(surfaces) ==
    IF IsNaN(surfaces) THEN NaN
    ELSE IF surfaces = Num(0) THEN Lab("None")
    ELSE IF FLess(surfaces, Num(5)) THEN Lab("Low")
    ELSE IF FLeq(surfaces, Num(10)) THEN Lab("Medium")
    ELSE Lab("High")

categorize_amalgam(surfaces) ==
    IF IsNaN(surfaces) THEN NaN
    ELSE IF surfaces = Num(0) THEN Lab("None")
    ELSE IF FLeq(surfaces, Num(5)) THEN Lab("Low")
    ELSE IF FLeq(surfaces, Num(10)) THEN Lab("Medium")
    ELSE Lab("High")

\* df["RIAGENDR"].replace({1: "Male", 2: "Female"})
gender_replace(code) ==
    CASE code = Num(1) -> Lab("Male")
      [] code = Num(2) -> Lab("Female")
      [] OTHER -> code

\* df["RIDRETH1"].replace({...})
race_replace(code) ==
    CASE code = Num(1) -> Lab("Mexican American")
      [] code = Num(2) -> Lab("Other Hispanic")
      [] code = Num(3) -> Lab("Non-Hispanic White")
      [] code = Num(4) -> Lab("Non-Hispanic Black")
      [] code = Num(5) -> Lab("Other Race/Multi-Racial")
      [] OTHER -> code

\* bins=[0, 19, 39, 59, np.inf]
age_bins == <<Num(0), Num(19), Num(39), Num(59), PosInf>>

\* labels (the source writes them with an en dash)
age_labels == <<"0-19", "20-39", "40-59", "60+">>

\* membership of x in bin i of pd.cut(..., right=True): include_lowest is left
\* at its default False, so every bin is open on the left
in_bin(x, i) == FLess(age_bins[i], x) /\ FLeq(x, age_bins[i + 1])

\* pd.cut(x, bins, labels, right=True) for one value
age_cut(x) ==
    IF \E i \in 1..Len(age_labels) : in_bin(x, i)
    THEN Lab(age_labels[CHOOSE i \in 1..Len(age_labels) : in_bin(x, i)])
    ELSE NaN

----------------------------------------------------------------------------
(* descriptive_stats.py: the derived markers, lines 68-77 *)

HasCol(row, col) == col \in DOMAIN row

\* df.get(col, default) for one row of the frame
df_get(row, col, default) == IF HasCol(row, col) THEN row[col] ELSE default

\* df.get(col): None for an absent column; a column of None is missing in
\* every arithmetic operation
df_get_none(row, col) == df_get(row, col, NaN)

Hundred == Num(100)

compute_markers(row) ==
    LET WBC == df_get_none(row, "LBXWBCSI")
        Neutro == FDiv(FMul(WBC, df_get(row, "LBXNEPCT", Num(0))), Hundred)
        Lympho == FDiv(FMul(WBC, df_get(row, "LBXLYPCT", Num(0))), Hundred)
        Mono == FDiv(FMul(WBC, df_get(row, "LBXMOPCT", Num(0))), Hundred)
        Platelets == df_get_none(row, "LBXPLTSI")
    IN  [WBC |-> WBC, Neutro |-> Neutro, Lympho |-> Lympho, Mono |-> Mono,
         Platelets |-> Platelets,
         NLR |-> FDiv(Neutro, Lympho),
         MLR |-> FDiv(Mono, Lympho),
         PLR |-> FDiv(Platelets, Lympho),
         SII |-> FDiv(FMul(Neutro, Platelets), Lympho)] @@ row

MARKERS == <<"NLR", "MLR", "PLR", "SII">>

----------------------------------------------------------------------------
(* Tables: [ok, cols, rows]; a row is a function from the columns to values. *)
(* ok = FALSE is a file pyreadstat.read_xport cannot read.                  *)

Unreadable == [ok |-> FALSE, cols |-> {}, rows |-> <<>>]

Frame(cols, rows) == [ok |-> TRUE, cols |-> cols, rows |-> rows]

\* a row of NaN over the columns cs
NaNRow(cs) == [c \in cs |-> NaN]

\* the rows of right whose SEQN equals that of the row l, in order
Matches(l, right) ==
    LET Same(r) == r["SEQN"] = l["SEQN"]
    IN  SelectSeq(right.rows, Same)

\* left.merge(right, on="SEQN"): inner join, in the order of the left keys
merge_inner(left, right) ==
    Frame(left.cols \cup right.cols,
          Flatten([i \in 1..Len(left.rows) |->
                     LET m == Matches(left.rows[i], right)
                     IN  [j \in 1..Len(m) |-> left.rows[i] @@ m[j]]]))

\* mutant of merge_left: an inner join, subjects without a right row are lost
merge_left_inner(left, right) == merge_inner(left, right)

\* left.merge(right, on="SEQN", how="left"): unmatched left rows are kept,
\* the columns of right filled with NaN
merge_left(left, right) ==
    Frame(left.cols \cup right.cols,
          Flatten([i \in 1..Len(left.rows) |->
                     LET m == Matches(left.rows[i], right)
                     IN  IF m = <<>>
                         THEN <<left.rows[i] @@ NaNRow(right.cols \ left.cols)>>
                         ELSE [j \in 1..Len(m) |-> left.rows[i] @@ m[j]]]))

\* the dental columns of the model, and the two tests of line 38 on them
SurfaceCols ==
    {"OHX02TC", "OHX02FS", "OHX02FT", "OHX03TC", "OHX03FS", "OHX03FT",
     "OHX04TC", "OHX04FS", "OHX04FT", "OHX05TC", "OHX05FS", "OHX05FT"}

DentalCols == {"SEQN", "OHDDESTS", "OHXIMP"} \cup SurfaceCols

starts_with_OHX(c) == c \in SurfaceCols \cup {"OHXIMP"}

ends_with_TC_FS_FT(c) == c \in SurfaceCols

\* count_amalgam_surfaces: per row, the number of selected columns equal to 2
count_amalgam_surfaces(df) ==
    LET cols == {c \in df.cols : starts_with_OHX(c) /\ ends_with_TC_FS_FT(c)}
    IN  Frame({"SEQN", "amalgam_surfaces"},
              [i \in 1..Len(df.rows) |->
                 [SEQN |-> df.rows[i]["SEQN"],
                  amalgam_surfaces |->
                     Num(Cardinality({c \in cols : df.rows[i][c] = Num(2)}))]])

MarkerCols == {"WBC", "Neutro", "Lympho", "Mono", "Platelets",
               "NLR", "MLR", "PLR", "SII"}

\* lines 65-77: the merged frame of one cycle with its markers
build_frame(cycle, f) ==
    LET dental == count_amalgam_surfaces(f.dental)
        df == merge_left(merge_inner(f.demo, f.cbc), dental)
    IN  Frame(df.cols \cup {"Cycle"} \cup MarkerCols,
              [i \in 1..Len(df.rows) |->
                 compute_markers([Cycle |-> Lab(cycle)] @@ df.rows[i])])

\* df[[marker, "WTMEC2YR"]].dropna()
dropna_pair(rows, marker) ==
    LET Valid(r) == ~IsNaN(r[marker]) /\ ~IsNaN(r["WTMEC2YR"])
    IN  SelectSeq(rows, Valid)

Column(rows, col) == [i \in 1..Len(rows) |-> rows[i][col]]

\* lines 87-94: the summary row of the statistics st of n subjects
stats_row(cycle, marker, n, st) ==
    <<[Cycle |-> cycle, Marker |-> marker, Mean |-> st.mean,
       SD |-> st.std, CI_Low |-> st.lo, CI_High |-> st.hi,
       SampleSize |-> n]>>

\* lines 83-94: nothing for an empty selection sub, else its summary row
summary_row(cycle, marker, sub) ==
    IF sub = <<>> THEN <<>>
    ELSE stats_row(cycle, marker, Len(sub),
                   weighted_stats(Column(sub, marker), Column(sub, "WTMEC2YR")))

\* lines 81-94: the summary rows of one cycle
marker_summary(cycle, df, marker) ==
    summary_row(cycle, marker, dropna_pair(df.rows, marker))

\* the rows of the markers from the k-th on
cycle_summaries(cycle, df, k) ==
    Flatten([j \in 1..(Len(MARKERS) - k + 1) |->
               marker_summary(cycle, df, MARKERS[k + j - 1])])

\* the exception lines 60-62 raise: a table that cannot be read ("" if none)
merge_exc(f) ==
    IF ~f.cbc.ok \/ ~f.demo.ok \/ ~f.dental.ok THEN "read_xport" ELSE ""

\* lines 60-79, the first part of the try block: the list of frames after it
cycle_merge(cycle, f, dfs) ==
    IF merge_exc(f) # "" THEN dfs ELSE Append(dfs, build_frame(cycle, f))

\* the exception line 82 raises on the frame df: df[[marker, "WTMEC2YR"]] is
\* a KeyError when the weight column is absent ("" if none)
stats_exc(df) == IF "WTMEC2YR" \notin df.cols THEN "KeyError" ELSE ""

\* lines 81-94, the rest of the try block, on the frame df just appended:
\* the list of summary rows after it
cycle_stats(cycle, df, sums) ==
    IF stats_exc(df) # "" THEN sums ELSE sums \o cycle_summaries(cycle, df, 1)

\* the exception the try block ends with, dfs being the frames after it
try_exc(f, dfs) ==
    IF merge_exc(f) # "" THEN merge_exc(f) ELSE stats_exc(dfs[Len(dfs)])

\* mutant of after_except: the handler lets the fault end the run
after_except_reraise(exc) == "raised"

\* lines 95-96: "except Exception" catches the fault, the loop goes on
after_except(exc) == "loop"

\* pd.concat(df_all, ignore_index=True): the union of the columns, NaN where
\* a frame lacks one
pd_concat(dfs) ==
    LET cols == UNION {dfs[i].cols : i \in 1..Len(dfs)}
    IN  Frame(cols,
              Flatten([i \in 1..Len(dfs) |->
                         [j \in 1..Len(dfs[i].rows) |->
                            dfs[i].rows[j] @@ NaNRow(cols \ dfs[i].cols)]]))

----------------------------------------------------------------------------
(* analysis.py: prepare_groups, run_t_tests *)

prepare_row(r) ==
    [c \in {"Amalgam Group", "Gender", "Race", "AgeGroup"} |->
        CASE c = "Amalgam Group" -> categorize_amalgam(r["amalgam_surfaces"])
          [] c = "Gender" -> gender_replace(r["RIAGENDR"])
          [] c = "Race" -> race_replace(r["RIDRETH1"])
          [] c = "AgeGroup" -> age_cut(r["RIDAGEYR"])] @@ r

\* mutant of prepare_groups: a subject with a missing stratum value is dropped
prepare_groups_dropna(df) ==
    LET Complete(r) == \A c \in {"Gender", "Race", "AgeGroup"} : ~IsNaN(r[c])
    IN  Frame(df.cols \cup {"Amalgam Group", "Gender", "Race", "AgeGroup"},
              SelectSeq([i \in 1..Len(df.rows) |-> prepare_row(df.rows[i])],
                        Complete))

prepare_groups(df) ==
    Frame(df.cols \cup {"Amalgam Group", "Gender", "Race", "AgeGroup"},
          [i \in 1..Len(df.rows) |-> prepare_row(df.rows[i])])

\* mutant of COMPARISONS: two exposed levels are compared with each other too
COMPARISONS_pairs ==
    <<[g1 |-> "None", g2 |-> "Low", name |-> "None vs Low"],
      [g1 |-> "None", g2 |-> "Medium", name |-> "None vs Medium"],
      [g1 |-> "None", g2 |-> "High", name |-> "None vs High"],
      [g1 |-> "Low", g2 |-> "Medium", name |-> "Low vs Medium"]>>

COMPARISONS ==
    <<[g1 |-> "None", g2 |-> "Low", name |-> "None vs Low"],
      [g1 |-> "None", g2 |-> "Medium", name |-> "None vs Medium"],
      [g1 |-> "None", g2 |-> "High", name |-> "None vs High"]>>

STRATA_VARS == <<"Gender", "Race", "AgeGroup">>

\* the cycle labels of the registry, in the order of CBC_DEMO_DENTAL_FILES
\* (which is also their sorted order)
ALL_CYCLES ==
    <<"1999-2000", "2001-2002", "2003-2004", "2005-2006", "2007-2008",
      "2009-2010", "2011-2012", "2013-2014", "2015-2016", "2017-2018">>

\* the sorted order groupby iterates keys in: numbers before strings, each
\* ascending; the categories of AgeGroup in their declared order
KeyOrder(col) ==
    CASE col = "Cycle" -> [i \in 1..Len(ALL_CYCLES) |-> Lab(ALL_CYCLES[i])]
      [] col = "Gender" ->
            [i \in 1..9 |-> Num(i)] \o <<Lab("Female"), Lab("Male")>>
      [] col = "Race" ->
            [i \in 1..9 |-> Num(i)] \o
            <<Lab("Mexican American"), Lab("Non-Hispanic Black"),
              Lab("Non-Hispanic White"), Lab("Other Hispanic"),
              Lab("Other Race/Multi-Racial")>>
      [] col = "AgeGroup" -> [i \in 1..Len(age_labels) |-> Lab(age_labels[i])]
      [] col = "Amalgam Group" ->
            <<Lab("High"), Lab("Low"), Lab("Medium"), Lab("None")>>
      [] col = "DrinkingStatus" ->
            <<Lab("Current Drinker"), Lab("Former Drinker"),
              Lab("Lifetime Abstainer")>>
      [] col = "SmokingStatus" ->
            <<Lab("Current daily smoker"), Lab("Current non-daily smoker"),
              Lab("Former smoker"), Lab("Never smoker")>>

\* the keys of rows.groupby(col): the values that occur, NaN dropped
group_keys(rows, col) ==
    LET Occurs(v) == \E i \in 1..Len(rows) : rows[i][col] = v
    IN  SelectSeq(KeyOrder(col), Occurs)

\* the group of one key
group_of(rows, col, v) ==
    LET In(r) == r[col] = v
    IN  SelectSeq(rows, In)

\* g[marker].dropna()
dropna_vals(rows, marker) ==
    LET Valid(x) == ~IsNaN(x)
    IN  SelectSeq(Column(rows, marker), Valid)

MIN_GROUP == 10

\* line 49 negated: the two groups are large enough to be tested
passes_gate(n1, n2) == ~(n1 < MIN_GROUP \/ n2 < MIN_GROUP)

\* lines 43-63 for one group df_sub of one stratum value
stratum_tests(cycle, strata, value, df_sub) ==
    Flatten([c \in 1..Len(COMPARISONS) |->
        LET g1 == group_of(df_sub, "Amalgam Group", Lab(COMPARISONS[c].g1))
            g2 == group_of(df_sub, "Amalgam Group", Lab(COMPARISONS[c].g2))
        IN  Flatten([m \in 1..Len(MARKERS) |->
                LET g1_vals == dropna_vals(g1, MARKERS[m])
                    g2_vals == dropna_vals(g2, MARKERS[m])
                IN  IF passes_gate(Len(g1_vals), Len(g2_vals))
                    THEN <<[Cycle |-> cycle, Strata |-> strata, Group |-> value,
                            Marker |-> MARKERS[m],
                            Comparison |-> COMPARISONS[c].name,
                            Group1n |-> Len(g1_vals),
                            Group2n |-> Len(g2_vals)]>>
                    ELSE <<>>])])

\* the significance level of line 61
ALPHA == Q(5, 100)

PDigits == 5

\* lines 59-61: the three fields of a result row that are computed from the
\* statistic and the p-value ttest_ind returned
test_fields(stat, pval) ==
    [tstat |-> round_to(stat, RoundDigits),
     pvalue |-> round_to(pval, PDigits),
     Significant |-> FLess(pval, ALPHA)]

\* lines 38-63
run_t_tests(df) ==
    LET cycles == group_keys(df.rows, "Cycle")
    IN  Flatten([ci \in 1..Len(cycles) |->
          LET df_cycle == group_of(df.rows, "Cycle", cycles[ci])
          IN  Flatten([si \in 1..Len(STRATA_VARS) |->
                LET vals == group_keys(df_cycle, STRATA_VARS[si])
                IN  Flatten([vi \in 1..Len(vals) |->
                      stratum_tests(cycles[ci].s, STRATA_VARS[si], vals[vi],
                                    group_of(df_cycle, STRATA_VARS[si], vals[vi]))])])])

----------------------------------------------------------------------------
(* drinker_analysis.py / smoker_analysis.py: the questionnaire variants *)

\* the columns load_alcohol / load_smoking keep
ALCOHOL_COLS == {"SEQN", "ALQ101", "ALQ120Q"}

SMOKING_COLS == {"SEQN", "SMQ020", "SMQ040"}

\* the marker list of the questionnaire variants
STATUS_MARKERS == <<"NLR", "MLR", "PLR", "SII", "CRP", "BloodMercury">>

\* cycles_with_alcohol: without a download log every cycle of ALCOHOL_FILES,
\* else the cycles of the log whose required labels all have status success
cycles_with_alcohol(log, registry) == IF ~log.exists THEN registry ELSE log.valid

\* cycles_with_smoking: the same over SMOKING_FILES
cycles_with_smoking(log, registry) == IF ~log.exists THEN registry ELSE log.valid

\* base_df[base_df["Cycle"].isin(valid_cycles)]
isin_cycles(df, valid) ==
    LET In(r) == \E c \in valid : r["Cycle"] = Lab(c)
    IN  Frame(df.cols, SelectSeq(df.rows, In))

\* mutant of load_frames: the loop ends after the first file it loads
load_frames_first(qfiles, order, keep) ==
    LET Exists(c) == c \in DOMAIN qfiles /\ qfiles[c].ok
        found == SelectSeq(order, Exists)
        present == IF found = <<>> THEN <<>> ELSE <<found[1]>>
    IN  [i \in 1..Len(present) |->
           LET t == qfiles[present[i]]
               cols == (keep \cap t.cols) \cup {"Cycle"}
           IN  Frame(cols,
                     [j \in 1..Len(t.rows) |->
                        [c \in cols |-> IF c = "Cycle" THEN Lab(present[i])
                                        ELSE t.rows[j][c]]])]

\* the loop of load_alcohol / load_smoking over the cycles in the order the
\* set is iterated in: one frame per cycle whose file exists
load_frames(qfiles, order, keep) ==
    LET Exists(c) == c \in DOMAIN qfiles /\ qfiles[c].ok
        present == SelectSeq(order, Exists)
    IN  [i \in 1..Len(present) |->
           LET t == qfiles[present[i]]
               cols == (keep \cap t.cols) \cup {"Cycle"}
           IN  Frame(cols,
                     [j \in 1..Len(t.rows) |->
                        [c \in cols |-> IF c = "Cycle" THEN Lab(present[i])
                                        ELSE t.rows[j][c]]])]

load_alcohol(qfiles, order) ==
    IF load_frames(qfiles, order, ALCOHOL_COLS) = <<>>
    THEN Frame(ALCOHOL_COLS \cup {"Cycle"}, <<>>)
    ELSE pd_concat(load_frames(qfiles, order, ALCOHOL_COLS))

load_smoking(qfiles, order) ==
    IF load_frames(qfiles, order, SMOKING_COLS) = <<>>
    THEN Frame(SMOKING_COLS \cup {"Cycle"}, <<>>)
    ELSE pd_concat(load_frames(qfiles, order, SMOKING_COLS))

\* mutant of merge_left_seqn_cycle: the join is keyed on the subject id alone
merge_left_seqn(left, right) ==
    Frame(left.cols \cup right.cols,
          Flatten([i \in 1..Len(left.rows) |->
                     LET Same(r) == r["SEQN"] = left.rows[i]["SEQN"]
                         m == SelectSeq(right.rows, Same)
                     IN  IF m = <<>>
                         THEN <<left.rows[i] @@ NaNRow(right.cols \ left.cols)>>
                         ELSE [j \in 1..Len(m) |-> left.rows[i] @@ m[j]]]))

\* base_df.merge(q_df, on=["SEQN", "Cycle"], how="left")
merge_left_seqn_cycle(left, right) ==
    Frame(left.cols \cup right.cols,
          Flatten([i \in 1..Len(left.rows) |->
                     LET Same(r) == /\ r["SEQN"] = left.rows[i]["SEQN"]
                                    /\ r["Cycle"] = left.rows[i]["Cycle"]
                         m == SelectSeq(right.rows, Same)
                     IN  IF m = <<>>
                         THEN <<left.rows[i] @@ NaNRow(right.cols \ left.cols)>>
                         ELSE [j \in 1..Len(m) |-> left.rows[i] @@ m[j]]]))

\* _classify of classify_drinking; row.get of an absent field is None
drinking_status(row) ==
    IF df_get_none(row, "ALQ101") = Num(2) THEN Lab("Lifetime Abstainer")
    ELSE IF df_get_none(row, "ALQ101") = Num(1)
    THEN IF df_get_none(row, "ALQ120Q") = Num(0) THEN Lab("Former Drinker")
         ELSE IF /\ ~IsNaN(df_get_none(row, "ALQ120Q"))
                 /\ FLess(Num(0), df_get_none(row, "ALQ120Q"))
         THEN Lab("Current Drinker")
         ELSE NaN
    ELSE NaN

\* _classify of classify_smoking
smoking_status(row) ==
    IF df_get_none(row, "SMQ020") = Num(2) THEN Lab("Never smoker")
    ELSE IF df_get_none(row, "SMQ020") = Num(1)
    THEN IF df_get_none(row, "SMQ040") = Num(1) THEN Lab("Current daily smoker")
         ELSE IF df_get_none(row, "SMQ040") = Num(2)
         THEN Lab("Current non-daily smoker")
         ELSE IF df_get_none(row, "SMQ040") = Num(3) THEN Lab("Former smoker")
         ELSE NaN
    ELSE NaN

classify_drinking(df) ==
    Frame(df.cols \cup {"DrinkingStatus", "Amalgam Group"},
          [i \in 1..Len(df.rows) |->
             [c \in {"DrinkingStatus", "Amalgam Group"} |->
                IF c = "DrinkingStatus" THEN drinking_status(df.rows[i])
                ELSE categorize_amalgam(df.rows[i]["amalgam_surfaces"])]
             @@ df.rows[i]])

classify_smoking(df) ==
    Frame(df.cols \cup {"SmokingStatus", "Amalgam Group"},
          [i \in 1..Len(df.rows) |->
             [c \in {"SmokingStatus", "Amalgam Group"} |->
                IF c = "SmokingStatus" THEN smoking_status(df.rows[i])
                ELSE categorize_amalgam(df.rows[i]["amalgam_surfaces"])]
             @@ df.rows[i]])

\* process_with_drinking after process_cycles returned base_df; q holds the
\* download log, the questionnaire files and the iteration order of the set
process_with_drinking(base_df, q) ==
    IF base_df.rows = <<>> THEN base_df
    ELSE classify_drinking(
             merge_left_seqn_cycle(
                 isin_cycles(base_df, cycles_with_alcohol(q.log, q.registry)),
                 load_alcohol(q.tables, q.order)))

process_with_smoking(base_df, q) ==
    IF base_df.rows = <<>> THEN base_df
    ELSE classify_smoking(
             merge_left_seqn_cycle(
                 isin_cycles(base_df, cycles_with_smoking(q.log, q.registry)),
                 load_smoking(q.tables, q.order)))

\* the body of the two innermost loops of run_drinking_ttests /
\* run_smoking_ttests for the group df_status of one status value
status_tests(cycle, status_col, value, df_status) ==
    Flatten([c \in 1..Len(COMPARISONS) |->
        LET g1 == group_of(df_status, "Amalgam Group", Lab(COMPARISONS[c].g1))
            g2 == group_of(df_status, "Amalgam Group", Lab(COMPARISONS[c].g2))
        IN  Flatten([m \in 1..Len(STATUS_MARKERS) |->
                LET g1_vals == dropna_vals(g1, STATUS_MARKERS[m])
                    g2_vals == dropna_vals(g2, STATUS_MARKERS[m])
                IN  IF passes_gate(Len(g1_vals), Len(g2_vals))
                    THEN <<(status_col :> value) @@
                           [Cycle |-> cycle, Marker |-> STATUS_MARKERS[m],
                            Comparison |-> COMPARISONS[c].name,
                            Group1n |-> Len(g1_vals),
                            Group2n |-> Len(g2_vals)]>>
                    ELSE <<>>])])

\* g1[marker] raises KeyError when the table has no such column; the loops
\* reach it as soon as one (cycle, status) group exists ("" if nothing raises)
status_ttests_exc(df, status_col) ==
    IF /\ \E i \in 1..Len(df.rows) : ~IsNaN(df.rows[i][status_col])
       /\ \E m \in 1..Len(STATUS_MARKERS) : STATUS_MARKERS[m] \notin df.cols
    THEN "KeyError" ELSE ""

\* the rows the loops collect when nothing raises
status_ttests(df, status_col) ==
    LET cycles == group_keys(df.rows, "Cycle")
    IN  Flatten([ci \in 1..Len(cycles) |->
          LET df_cycle == group_of(df.rows, "Cycle", cycles[ci])
              vals == group_keys(df_cycle, status_col)
          IN  Flatten([vi \in 1..Len(vals) |->
                status_tests(cycles[ci].s, status_col, vals[vi],
                             group_of(df_cycle, status_col, vals[vi]))])])

run_drinking_ttests(df) == status_ttests(df, "DrinkingStatus")

\* df_group[[marker, "WTMEC2YR"]] of compute_drinking_descriptive /
\* compute_smoking_descriptive raises KeyError when the table lacks one of the
\* two columns; the loops reach it as soon as one (cycle, status, exposure)
\* group exists ("" if nothing raises)
status_desc_exc(df, status_col) ==
    IF /\ \E i \in 1..Len(df.rows) :
             ~IsNaN(df.rows[i][status_col]) /\ ~IsNaN(df.rows[i]["Amalgam Group"])
       /\ \/ "WTMEC2YR" \notin df.cols
          \/ \E m \in 1..Len(STATUS_MARKERS) : STATUS_MARKERS[m] \notin df.cols
    THEN "KeyError" ELSE ""

\* the rows with the fields extra added
tag_rows(rows, extra) == [j \in 1..Len(rows) |-> extra @@ rows[j]]

\* the innermost loop of the two functions for one group: the selection, the
\* dropna, the empty test and the statistics are those of process_cycles, the
\* row carries the status and the exposure group besides
group_summaries(cycle, status_col, value, amalgam, df_group) ==
    Flatten([m \in 1..Len(STATUS_MARKERS) |->
        tag_rows(summary_row(cycle, STATUS_MARKERS[m],
                             dropna_pair(df_group, STATUS_MARKERS[m])),
                 (status_col :> value) @@ [AmalgamGroup |-> amalgam])])

\* the (cycle, status, exposure group) keys the three nested groupby loops
\* visit, in their order: the first loop slowest, keys with NaN dropped
group_triples(rows, status_col) ==
    LET cs == KeyOrder("Cycle")
        vs == KeyOrder(status_col)
        gs == KeyOrder("Amalgam Group")
        all == [n \in 1..(Len(cs) * Len(vs) * Len(gs)) |->
                  <<cs[(n - 1) \div (Len(vs) * Len(gs)) + 1],
                    vs[(((n - 1) \div Len(gs)) % Len(vs)) + 1],
                    gs[((n - 1) % Len(gs)) + 1]>>]
        Occurs(t) == \E i \in 1..Len(rows) :
                        /\ rows[i]["Cycle"] = t[1]
                        /\ rows[i][status_col] = t[2]
                        /\ rows[i]["Amalgam Group"] = t[3]
    IN  SelectSeq(all, Occurs)

\* the rows of one (cycle, status, exposure group) key
triple_of(rows, status_col, t) ==
    LET In(r) == r["Cycle"] = t[1] /\ r[status_col] = t[2] /\ r["Amalgam Group"] = t[3]
    IN  SelectSeq(rows, In)

\* the rows the loops collect when nothing raises
status_descriptive(df, status_col) ==
    Flatten([k \in 1..Len(group_triples(df.rows, status_col)) |->
        group_summaries(group_triples(df.rows, status_col)[k][1].s, status_col,
                        group_triples(df.rows, status_col)[k][2],
                        group_triples(df.rows, status_col)[k][3].s,
                        triple_of(df.rows, status_col,
                                  group_triples(df.rows, status_col)[k]))])

\* compute_drinking_descriptive / compute_smoking_descriptive: what the call
\* gives, a fault or the table
compute_descriptive(fn, df, status_col) ==
    [fn |-> fn, exc |-> status_desc_exc(df, status_col),
     rows |-> IF status_desc_exc(df, status_col) # "" THEN <<>>
              ELSE status_descriptive(df, status_col)]

run_smoking_ttests(df) == status_ttests(df, "SmokingStatus")

----------------------------------------------------------------------------
(* regression_models.py: fit_cubic_spline, fit_logistic, run_models *)

\* the columns both fits select besides the marker
MODEL_COLS == {"time", "amalgam_surfaces", "RIDAGEYR", "RIAGENDR", "RIDRETH1"}

\* df["Cycle"].str.slice(0, 4).astype(int): the first year of the cycle label
start_year(cycle) ==
    1999 + 2 * ((CHOOSE i \in 1..Len(ALL_CYCLES) : Lab(ALL_CYCLES[i]) = cycle) - 1)

\* line 83: the time column run_models adds
with_time(df) ==
    Frame(df.cols \cup {"time"},
          [i \in 1..Len(df.rows) |->
             [time |-> Num(start_year(df.rows[i]["Cycle"]))] @@ df.rows[i]])

\* df[["time", marker, ...]]: KeyError when the table lacks one of the columns
select_exc(df, marker) ==
    IF (MODEL_COLS \cup {marker}) \subseteq df.cols THEN "" ELSE "KeyError"

\* df[["time", marker, ...]].dropna(): the rows with every selected field
model_data(df, marker) ==
    LET Complete(r) == \A c \in MODEL_COLS \cup {marker} : ~IsNaN(r[c])
    IN  SelectSeq(df.rows, Complete)

\* fit_cubic_spline: no handler around the selection, the spline basis or the
\* fit; the basis cannot be built on a table without rows
fit_cubic_spline(df, marker) ==
    IF select_exc(df, marker) # "" THEN [exc |-> select_exc(df, marker)]
    ELSE IF model_data(df, marker) = <<>> THEN [exc |-> "ValueError"]
    ELSE [exc |-> "", nobs |-> Len(model_data(df, marker))]

\* the values of a series in ascending order: those below the middle element,
\* those equal to it, those above it
RECURSIVE sort_values(_)
sort_values(s) ==
    IF s = <<>> THEN <<>>
    ELSE LET pivot == s[(Len(s) + 1) \div 2]
             Below(e) == FLess(e, pivot)
             Level(e) == ~FLess(e, pivot) /\ ~FLess(pivot, e)
             Above(e) == FLess(pivot, e)
         IN  sort_values(SelectSeq(s, Below)) \o SelectSeq(s, Level)
               \o sort_values(SelectSeq(s, Above))

\* Series.median(): the middle value, or the mean of the two middle values
series_median(s) ==
    LET v == sort_values(s)
        n == Len(s)
    IN  IF n % 2 = 1 THEN v[(n + 1) \div 2]
        ELSE FDiv(FAdd(v[n \div 2], v[n \div 2 + 1]), Num(2))

\* mutant of binarize: a value equal to the median counts as above it
binarize_geq(x, median) == IF FLeq(median, x) THEN 1 ELSE 0

\* line 67: (data[marker] > median).astype(int) for one value
binarize(x, median) == IF FLess(median, x) THEN 1 ELSE 0

\* fit_logistic: None for a table without rows and for a fit that raises
\* (converges = FALSE); the selection itself is outside the try block
fit_logistic(df, marker, converges) ==
    IF select_exc(df, marker) # "" THEN [exc |-> select_exc(df, marker)]
    ELSE IF model_data(df, marker) = <<>> \/ ~converges
    THEN [exc |-> "", model |-> "None"]
    ELSE LET y == Column(model_data(df, marker), marker)
             median == series_median(y)
         IN  [exc |-> "", model |-> "Logit",
              binary |-> [i \in 1..Len(y) |-> binarize(y[i], median)]]

\* lines 91-98: the exception the pass of the loop for the k-th marker ends
\* with ("" if none)
pass_exc(df, k, nonconv) ==
    IF fit_cubic_spline(df, STATUS_MARKERS[k]).exc # ""
    THEN fit_cubic_spline(df, STATUS_MARKERS[k]).exc
    ELSE fit_logistic(df, STATUS_MARKERS[k], STATUS_MARKERS[k] \notin nonconv).exc

\* lines 90-98: the loop over the markers, up to the first fault that leaves
\* it; a marker enters cubic_models before its logistic model is fitted
models_loop(df, nonconv) ==
    LET faulty == {k \in 1..Len(STATUS_MARKERS) : pass_exc(df, k, nonconv) # ""}
        last == IF faulty = {} THEN Len(STATUS_MARKERS)
                ELSE CHOOSE k \in faulty : \A j \in faulty : k <= j
        fitted == {k \in 1..last : fit_cubic_spline(df, STATUS_MARKERS[k]).exc = ""}
        logit == {k \in 1..last :
                    /\ pass_exc(df, k, nonconv) = ""
                    /\ fit_logistic(df, STATUS_MARKERS[k],
                                    STATUS_MARKERS[k] \notin nonconv).model # "None"}
    IN  [fn |-> "run_models",
         exc |-> IF faulty = {} THEN "" ELSE pass_exc(df, last, nonconv),
         cubic |-> {STATUS_MARKERS[k] : k \in fitted},
         logit |-> {STATUS_MARKERS[k] : k \in logit},
         written |-> FALSE]

\* run_models on the table of process_cycles: the markers in the two pairs of
\* dictionaries, and whether lines 100-103 wrote the four tables
run_models(df, nonconv) ==
    LET r == models_loop(with_time(df), nonconv)
    IN  [r EXCEPT !.written = (r.exc = "")]

----------------------------------------------------------------------------
(* Calls of the pure functions on inputs drawn from bounded sets *)

MaxSurfaces == 12

MaxAge == 61

MaxLen == 3

MaxVal == 2

MaxWeight == 2

SurfaceInputs == {NaN} \cup {Num(n) : n \in 0..MaxSurfaces}

AgeInputs == {NaN} \cup {Num(a) : a \in 0..MaxAge}

\* all sequences over S of a length in lens
SeqsOf(S, lens) == UNION {[1..n -> S] : n \in lens}

\* the value sequences, in ascending order: a pair (values, weights) in any
\* other order is one of these with both sequences permuted alike, which
\* changes none of the sums weighted_stats takes
SeriesInputs ==
    {s \in SeqsOf({Num(v) : v \in 0..MaxVal}, 1..MaxLen) :
        \A i \in 1..(Len(s) - 1) : s[i].n <= s[i + 1].n}

\* the weight sequences for n values: one weight per value, one too few or
\* one too many
WeightInputs(n) == SeqsOf({Num(w) : w \in 0..MaxWeight}, {n - 1, n, n + 1})

LabCols == {"LBXWBCSI", "LBXNEPCT", "LBXLYPCT", "LBXMOPCT", "LBXPLTSI"}

\* values a laboratory field takes in the model: missing, zero, positive
LabVals(col) ==
    CASE col = "LBXWBCSI" -> {NaN, Num(0), Num(4)}
      [] col = "LBXNEPCT" -> {NaN, Num(0), Num(50)}
      [] col = "LBXLYPCT" -> {NaN, Num(0), Num(25)}
      [] col = "LBXMOPCT" -> {NaN, Num(0), Num(25)}
      [] col = "LBXPLTSI" -> {NaN, Num(0), Num(2)}

\* rows of a hematology table holding the columns cols
LabRows(cols) == {r \in [cols -> UNION {LabVals(c) : c \in LabCols}] :
                    \A c \in cols : r[c] \in LabVals(c)}

NoCall == [fn |-> "", arg |-> <<>>, ret |-> <<>>]

\* no questionnaire variant has run
NoQuest == [fn |-> ""]

\* no program has run after process_cycles
NoOut == [fn |-> ""]

InitFn ==
    /\ files = <<>>
    /\ pc = "calls"
    /\ idx = 0
    /\ df_all = <<>>
    /\ all_summaries = <<>>
    /\ skipped = <<>>
    /\ combined = <<>>
    /\ ttest = <<>>
    /\ quest = NoQuest
    /\ out = NoOut
    /\ call = NoCall

CallCategorize ==
    /\ pc = "calls" /\ call = NoCall
    /\ \E s \in SurfaceInputs :
          call' = [fn |-> "categorize_amalgam", arg |-> s,
                   ret |-> categorize_amalgam(s)]
    /\ UNCHANGED pipeVars

CallAgeCut ==
    /\ pc = "calls" /\ call = NoCall
    /\ \E a \in AgeInputs :
          call' = [fn |-> "age_cut", arg |-> a, ret |-> age_cut(a)]
    /\ UNCHANGED pipeVars

CallMarkers ==
    /\ pc = "calls" /\ call = NoCall
    /\ \E cols \in SUBSET LabCols : \E r \in LabRows(cols) :
          call' = [fn |-> "compute_markers", arg |-> r, ret |-> compute_markers(r)]
    /\ UNCHANGED pipeVars

CallWeightedStats ==
    /\ pc = "calls" /\ call = NoCall
    /\ \E series \in SeriesInputs : \E weights \in WeightInputs(Len(series)) :
          call' = [fn |-> "weighted_stats", arg |-> <<series, weights>>,
                   ret |-> weighted_stats(series, weights)]
    /\ UNCHANGED pipeVars

\* a row of the regression table: a marker value, and an age that is present
\* or missing
LogitRow(v, age) ==
    [time |-> Num(1999), NLR |-> v, amalgam_surfaces |-> Num(1), RIDAGEYR |-> age,
     RIAGENDR |-> Num(1), RIDRETH1 |-> Num(3)]

LogitRows ==
    {LogitRow(v, age) : v \in {NaN, PosInf} \cup {Num(x) : x \in 0..MaxVal},
                        age \in {NaN, Num(30)}}

LogitFrames ==
    {Frame(MODEL_COLS \cup {"NLR"}, rows) : rows \in SeqsOf(LogitRows, 0..MaxLen)}

CallFitLogistic ==
    /\ pc = "calls" /\ call = NoCall
    /\ \E df \in LogitFrames : \E converges \in BOOLEAN :
          call' = [fn |-> "fit_logistic", arg |-> df,
                   ret |-> fit_logistic(df, "NLR", converges)]
    /\ UNCHANGED pipeVars

\* the p-values ttest_ind is taken to return: missing (a group without
\* variance), 0, 1, and the millionths within PSpread of the level 0.05,
\* those halfway between two multiples of 0.00001 left out
PSpread == 12

PValueInputs ==
    {NaN, Num(0), Num(1)}
      \cup {Q(n, 1000000) : n \in {k \in (50000 - PSpread)..(50000 + PSpread) :
                                      k % 10 # 5}}

StatInputs == {NaN, Num(0), Q(-20004, 10000)}

CallTestFields ==
    /\ pc = "calls" /\ call = NoCall
    /\ \E stat \in StatInputs : \E pval \in PValueInputs :
          call' = [fn |-> "test_fields", arg |-> <<stat, pval>>,
                   ret |-> test_fields(stat, pval)]
    /\ UNCHANGED pipeVars

NextFn ==
    \/ CallCategorize
    \/ CallAgeCut
    \/ CallMarkers
    \/ CallWeightedStats
    \/ CallFitLogistic
    \/ CallTestFields

SpecFn == InitFn /\ [][NextFn]_vars

----------------------------------------------------------------------------
(* The data directories the pipeline is run on *)

NumCycles == 2

MaxSeqn == 2

GroupSlack == 1

\* the registry CBC_DEMO_DENTAL_FILES, cut to its first NumCycles cycles
CYCLES == SubSeq(ALL_CYCLES, 1, NumCycles)

RECURSIVE Sorted(_)
Sorted(S) ==
    IF S = {} THEN <<>>
    ELSE LET lo == CHOOSE x \in S : \A y \in S : x <= y
         IN  <<lo>> \o Sorted(S \ {lo})

SurfaceColSeq ==
    <<"OHX02TC", "OHX02FS", "OHX02FT", "OHX03TC", "OHX03FS", "OHX03FT",
      "OHX04TC", "OHX04FS", "OHX04FT", "OHX05TC", "OHX05FS", "OHX05FT">>

\* a dental exam row with n surfaces coded 2 (amalgam); OHXIMP also holds a 2
\* but is no surface column, the last surface column is not examined
DentalRow(seqn, n) ==
    [c \in DentalCols |->
        CASE c = "SEQN" -> Num(seqn)
          [] c = "OHDDESTS" -> Num(1)
          [] c = "OHXIMP" -> Num(2)
          [] OTHER ->
              LET i == CHOOSE j \in 1..Len(SurfaceColSeq) : SurfaceColSeq[j] = c
              IN  IF i <= n THEN Num(2)
                  ELSE IF i = Len(SurfaceColSeq) THEN NaN ELSE Num(1)]

DemoColsAll == {"SEQN", "WTMEC2YR", "RIDAGEYR", "RIAGENDR", "RIDRETH1"}

DemoRow(seqn, wt, age, gender, race, cols) ==
    [c \in cols |->
        CASE c = "SEQN" -> Num(seqn)
          [] c = "WTMEC2YR" -> wt
          [] c = "RIDAGEYR" -> age
          [] c = "RIAGENDR" -> gender
          [] c = "RIDRETH1" -> race]

CbcColsAll == {"SEQN"} \cup LabCols

CbcProfiles == {"normal", "high", "zeroLY", "naLY", "zeroWBC", "naPLT"}

CbcValue(profile, c) ==
    CASE c = "LBXWBCSI" -> IF profile = "zeroWBC" THEN Num(0) ELSE Num(4)
      [] c = "LBXNEPCT" -> IF profile = "high" THEN Num(75) ELSE Num(50)
      [] c = "LBXLYPCT" -> IF profile = "zeroLY" THEN Num(0)
                           ELSE IF profile = "naLY" THEN NaN ELSE Num(25)
      [] c = "LBXMOPCT" -> Num(25)
      [] c = "LBXPLTSI" -> IF profile = "naPLT" THEN NaN ELSE Num(2)

CbcRow(seqn, profile, cols) ==
    [c \in cols |-> IF c = "SEQN" THEN Num(seqn) ELSE CbcValue(profile, c)]

\* one subject of the model: hematology profile, weight, surfaces (-1: no
\* dental row), age, sex code, race code
Subject(profile, wt, surf, age, gender, race) ==
    [profile |-> profile, wt |-> wt, surf |-> surf, age |-> age,
     gender |-> gender, race |-> race]

Typical == Subject("normal", Num(1), 0, Num(30), Num(1), Num(3))

\* the three tables of a cycle: subj maps SEQN to Subject, the three sets say
\* which subject has a row in which table, drop is a column the files lack
CycleFiles(subj, inDemo, inCbc, inDental, drop) ==
    LET sDemo == Sorted(inDemo)
        sCbc == Sorted(inCbc)
        sDental == Sorted(inDental)
    IN  [demo |-> Frame(DemoColsAll \ {drop},
                        [i \in 1..Len(sDemo) |->
                           DemoRow(sDemo[i], subj[sDemo[i]].wt, subj[sDemo[i]].age,
                                   subj[sDemo[i]].gender, subj[sDemo[i]].race,
                                   DemoColsAll \ {drop})]),
         cbc |-> Frame(CbcColsAll \ {drop},
                       [i \in 1..Len(sCbc) |->
                          CbcRow(sCbc[i], subj[sCbc[i]].profile, CbcColsAll \ {drop})]),
         dental |-> Frame(DentalCols,
                          [i \in 1..Len(sDental) |->
                             DentalRow(sDental[i], subj[sDental[i]].surf)])]

Seqns == 1..MaxSeqn

\* cycles that differ in which subject has a row in which table
MembershipCycles ==
    {CycleFiles([q \in Seqns |-> [Typical EXCEPT !.surf = 3 * (q - 1)]],
                d, c, t, "")
       : d \in SUBSET Seqns, c \in SUBSET Seqns, t \in SUBSET Seqns}

SubjectKinds ==
    {<<pr, Num(1)>> : pr \in CbcProfiles} \cup {<<"normal", Num(2)>>, <<"normal", NaN>>}

DropOptions == {"", "LBXNEPCT", "LBXLYPCT", "LBXMOPCT", "LBXWBCSI", "LBXPLTSI",
                "WTMEC2YR"}

\* cycles that differ in the values of the first two subjects and in the
\* columns; further subjects are typical
ValueCycles ==
    {CycleFiles([q \in Seqns |->
                    IF q <= 2
                    THEN [Typical EXCEPT !.profile = kinds[q][1],
                                         !.wt = kinds[q][2], !.surf = 1]
                    ELSE [Typical EXCEPT !.surf = 1]],
                Seqns, Seqns, Seqns, drop)
       : kinds \in [1..2 -> SubjectKinds], drop \in DropOptions}

ExtraKinds == {"none", "naLY", "zeroLY", "female", "naGender", "age0",
               "noDental", "medium"}

ExtraSubject(kind, gender) ==
    LET base == [Typical EXCEPT !.gender = gender]
    IN  CASE kind = "naLY" -> [base EXCEPT !.profile = "naLY"]
          [] kind = "zeroLY" -> [base EXCEPT !.profile = "zeroLY"]
          [] kind = "female" -> [base EXCEPT !.gender = Num(2)]
          [] kind = "naGender" -> [base EXCEPT !.gender = NaN]
          [] kind = "age0" -> [base EXCEPT !.age = Num(0)]
          [] kind = "medium" -> [base EXCEPT !.surf = 6]
          [] OTHER -> base

GroupSizes == (MIN_GROUP - 1)..(MIN_GROUP + GroupSlack)

\* cycles large enough for the t-tests: n1 subjects without amalgam, n2 with
\* one surface, and one more subject of the given kind
BigCyclesOf(kinds, genders) ==
    {LET all == 1..(n1 + n2 + (IF kind = "none" THEN 0 ELSE 1))
         subj == [q \in all |->
                    IF q <= n1 THEN [Typical EXCEPT !.gender = gender]
                    ELSE IF q <= n1 + n2
                    THEN [Typical EXCEPT !.gender = gender, !.surf = 1,
                                         !.profile = "high"]
                    ELSE ExtraSubject(kind, gender)]
     IN  CycleFiles(subj, all, all,
                    IF kind = "noDental" THEN 1..(n1 + n2) ELSE all, "")
       : n1 \in GroupSizes, n2 \in GroupSizes, kind \in kinds,
         gender \in genders}

BigCycles == BigCyclesOf(ExtraKinds, {Num(1), Num(3)})

\* the surfaces of a subject of each exposure level: None, Low, Medium, High
LevelSurfaces == <<0, 1, 6, 11>>

\* cycles with n subjects at each of the four exposure levels
LevelCycles ==
    {LET all == 1..(Len(LevelSurfaces) * n)
         subj == [q \in all |->
                    [Typical EXCEPT !.surf = LevelSurfaces[((q - 1) \div n) + 1]]]
     IN  CycleFiles(subj, all, all, all, "")
       : n \in GroupSizes}

NormalCycle == CycleFiles([q \in {1} |-> Typical], {1}, {1}, {1}, "")

SimpleCycles ==
    {NormalCycle,
     [NormalCycle EXCEPT !.cbc = Unreadable],
     [NormalCycle EXCEPT !.demo = Unreadable],
     [NormalCycle EXCEPT !.dental = Unreadable]}

MainCycles ==
    MembershipCycles \cup ValueCycles \cup BigCycles \cup LevelCycles \cup SimpleCycles

CycleSet == {CYCLES[i] : i \in 1..NumCycles}

\* the directories whose cycle k is of any kind, the others alike and simple
DirsWith(k, mains) ==
    {[c \in CycleSet |-> IF c = CYCLES[k] THEN main ELSE rest]
       : main \in mains, rest \in SimpleCycles}

\* the cycle of any kind is the first or the last of the registry
DataDirs == DirsWith(1, MainCycles) \cup DirsWith(NumCycles, MainCycles)

----------------------------------------------------------------------------
(* main(): process_cycles, prepare_groups, run_t_tests *)

Init ==
    /\ files \in DataDirs
    /\ pc = "loop"
    /\ idx = 1
    /\ df_all = <<>>
    /\ all_summaries = <<>>
    /\ skipped = <<>>
    /\ combined = Unreadable
    /\ ttest = <<>>
    /\ quest = NoQuest
    /\ out = NoOut
    /\ call = NoCall

\* one iteration of the loop of process_cycles, lines 58-96: the try block
\* (cycle_merge, then cycle_stats on the frame it appended) and the handler
ProcessCycle ==
    /\ pc = "loop" /\ idx <= NumCycles
    /\ df_all' = cycle_merge(CYCLES[idx], files[CYCLES[idx]], df_all)
    /\ all_summaries' =
          IF merge_exc(files[CYCLES[idx]]) # "" THEN all_summaries
          ELSE cycle_stats(CYCLES[idx], df_all'[Len(df_all')], all_summaries)
    /\ skipped' = IF try_exc(files[CYCLES[idx]], df_all') # ""
                  THEN Append(skipped, CYCLES[idx]) ELSE skipped
    /\ pc' = IF try_exc(files[CYCLES[idx]], df_all') # ""
             THEN after_except(try_exc(files[CYCLES[idx]], df_all')) ELSE "loop"
    /\ idx' = idx + 1
    /\ UNCHANGED <<files, combined, ttest, quest, out, call>>

\* lines 98-100: pd.concat raises ValueError on an empty list, and nothing in
\* process_cycles or main catches it
Concat ==
    /\ pc = "loop" /\ idx > NumCycles
    /\ IF df_all = <<>>
       THEN pc' = "raised" /\ UNCHANGED combined
       ELSE pc' = "returned" /\ combined' = pd_concat(df_all)
    /\ UNCHANGED <<files, idx, df_all, all_summaries, skipped, ttest, quest, out, call>>

\* main, line 118
PrepareGroups ==
    /\ pc = "returned"
    /\ combined' = prepare_groups(combined)
    /\ pc' = "prepared"
    /\ UNCHANGED <<files, idx, df_all, all_summaries, skipped, ttest, quest, out, call>>

\* DataFrame.to_csv(path, index=False): the header line names the columns; the
\* table built from an empty list of rows has none, and its file no header
to_csv(rows) ==
    [cols |-> IF rows = <<>> THEN {} ELSE DOMAIN rows[1], nrows |-> Len(rows)]

\* main, lines 119-121: the t-tests, and their table written to
\* ttest_results.csv
RunTTests ==
    /\ pc = "prepared"
    /\ ttest' = run_t_tests(combined)
    /\ out' = [fn |-> "analysis.main", csv |-> to_csv(ttest')]
    /\ pc' = "tested"
    /\ UNCHANGED <<files, idx, df_all, all_summaries, skipped, combined, quest, call>>

\* the fits that raise inside fit_logistic: none, or that of the first marker
NonConvergent == {{}, {STATUS_MARKERS[1]}}

\* regression_models.run_models, lines 81-103, after process_cycles
RunModels ==
    /\ pc = "returned"
    /\ \E nonconv \in NonConvergent : out' = run_models(combined, nonconv)
    /\ pc' = IF out'.exc # "" THEN "raised" ELSE "modelled"
    /\ UNCHANGED <<files, idx, df_all, all_summaries, skipped, combined, ttest, quest,
                   call>>

Next == ProcessCycle \/ Concat \/ PrepareGroups \/ RunTTests

Spec == Init /\ [][Next]_vars

----------------------------------------------------------------------------
(* The programs side by side: after process_cycles either analysis.main    *)
(* and box_plots.main, or regression_models.run_models, or the             *)
(* questionnaire merge with the t-tests and the descriptive tables of      *)
(* drinker_analysis / smoker_analysis                                      *)

\* a cycle whose only subject has no lymphocyte percentage
NoLymphoCycle ==
    CycleFiles([q \in {1} |-> [Typical EXCEPT !.profile = "naLY"]], {1}, {1}, {1}, "")

StatusCycles == BigCyclesOf({"none"}, {Num(1)}) \cup SimpleCycles \cup {NoLymphoCycle}

StatusDirs == DirsWith(1, StatusCycles) \cup DirsWith(NumCycles, StatusCycles)

\* the answers of one respondent: everybody a current drinker / daily smoker,
\* or abstainers, former and refusing respondents by turns
QuestKinds == {"current", "mixed", "absent"}

QuestAnswers(kind, seqn) ==
    IF kind = "current" THEN <<Num(1), Num(1)>>
    ELSE CASE seqn % 3 = 1 -> <<Num(2), NaN>>
           [] seqn % 3 = 2 -> <<Num(1), Num(0)>>
           [] OTHER -> <<Num(9), NaN>>

\* the questionnaire file of one cycle: a row for every person of the
\* demographics file, or no file
QuestTable(fn, kind, demo) ==
    IF kind = "absent" THEN Unreadable
    ELSE Frame(IF fn = "drinking" THEN ALCOHOL_COLS ELSE SMOKING_COLS,
               [i \in 1..Len(demo.rows) |->
                  LET a == QuestAnswers(kind, demo.rows[i]["SEQN"].n)
                  IN  IF fn = "drinking"
                      THEN [SEQN |-> demo.rows[i]["SEQN"], ALQ101 |-> a[1],
                            ALQ120Q |-> a[2]]
                      ELSE [SEQN |-> demo.rows[i]["SEQN"], SMQ020 |-> a[1],
                            SMQ040 |-> IF a[2] = Num(0) THEN Num(3) ELSE a[2]]])

\* no download log, or one that lists the first cycle only
Logs == {[exists |-> FALSE, valid |-> {}], [exists |-> TRUE, valid |-> {CYCLES[1]}]}

Perms(S) ==
    {o \in [1..Cardinality(S) -> S] :
        \A i, j \in 1..Cardinality(S) : i # j => o[i] # o[j]}

\* the questionnaire files of a directory: that of the first cycle of any
\* kind, those of the later cycles answered by current drinkers / smokers
QuestKindMaps ==
    {[c \in CycleSet |-> IF c = CYCLES[1] THEN k ELSE "current"] : k \in QuestKinds}

\* what one run of a variant reads besides the three tables of each cycle
QuestInputs(fn, f) ==
    {[fn |-> fn, log |-> log, registry |-> CycleSet,
      tables |-> [c \in CycleSet |-> QuestTable(fn, kinds[c], f[c].demo)],
      order |-> o]
       : log \in Logs, kinds \in QuestKindMaps,
         o \in UNION {Perms(IF l.exists THEN l.valid ELSE CycleSet) : l \in Logs}}

InitStatus ==
    /\ files \in StatusDirs
    /\ pc = "loop"
    /\ idx = 1
    /\ df_all = <<>>
    /\ all_summaries = <<>>
    /\ skipped = <<>>
    /\ combined = Unreadable
    /\ ttest = <<>>
    /\ quest = NoQuest
    /\ out = NoOut
    /\ call = NoCall

\* drinker_analysis.process_with_drinking, lines 91-99, after process_cycles
ProcessWithDrinking ==
    /\ pc = "returned"
    /\ \E q \in QuestInputs("drinking", files) :
          /\ Len(q.order) = Cardinality(cycles_with_alcohol(q.log, q.registry))
          /\ \A i \in 1..Len(q.order) :
                q.order[i] \in cycles_with_alcohol(q.log, q.registry)
          /\ quest' = q
          /\ combined' = process_with_drinking(combined, q)
    /\ pc' = "drinking"
    /\ UNCHANGED <<files, idx, df_all, all_summaries, skipped, ttest, out, call>>

\* smoker_analysis.process_with_smoking, lines 87-95
ProcessWithSmoking ==
    /\ pc = "returned"
    /\ \E q \in QuestInputs("smoking", files) :
          /\ Len(q.order) = Cardinality(cycles_with_smoking(q.log, q.registry))
          /\ \A i \in 1..Len(q.order) :
                q.order[i] \in cycles_with_smoking(q.log, q.registry)
          /\ quest' = q
          /\ combined' = process_with_smoking(combined, q)
    /\ pc' = "smoking"
    /\ UNCHANGED <<files, idx, df_all, all_summaries, skipped, ttest, out, call>>

\* run_drinking_ttests on the table of process_with_drinking (main calls it
\* on a non-empty table only): a KeyError leaves the function unhandled
RunDrinkingTTests ==
    /\ pc = "drinking" /\ combined.rows # <<>>
    /\ IF status_ttests_exc(combined, "DrinkingStatus") # ""
       THEN pc' = "raised" /\ UNCHANGED ttest
       ELSE pc' = "tested" /\ ttest' = run_drinking_ttests(combined)
    /\ UNCHANGED <<files, idx, df_all, all_summaries, skipped, combined, quest, out, call>>

\* run_smoking_ttests on the table of process_with_smoking
RunSmokingTTests ==
    /\ pc = "smoking" /\ combined.rows # <<>>
    /\ IF status_ttests_exc(combined, "SmokingStatus") # ""
       THEN pc' = "raised" /\ UNCHANGED ttest
       ELSE pc' = "tested" /\ ttest' = run_smoking_ttests(combined)
    /\ UNCHANGED <<files, idx, df_all, all_summaries, skipped, combined, quest, out, call>>

\* box_plots.main, lines 21-39, on the result file and any_significant (does
\* a row of the file have Significant set): a missing file is handled, a file
\* without header makes pd.read_csv raise EmptyDataError, and a significant
\* row leads to df[strata] on combined_dataset.csv, which was written by
\* descriptive_stats before prepare_groups added the stratum columns
box_plots_main(present, csv, any_significant) ==
    IF ~present THEN [fn |-> "box_plots.main", csv |-> "absent", exc |-> ""]
    ELSE IF csv.cols = {}
    THEN [fn |-> "box_plots.main", csv |-> "empty", exc |-> "EmptyDataError"]
    ELSE IF ~any_significant THEN [fn |-> "box_plots.main", csv |-> "rows", exc |-> ""]
    ELSE [fn |-> "box_plots.main", csv |-> "rows", exc |-> "KeyError"]

\* a run of box_plots.main: before analysis.main ever ran (no result file), or
\* after analysis.main wrote its file
BoxPlots ==
    /\ \/ pc = "loop" /\ idx = 1
       \/ pc = "tested" /\ out.fn = "analysis.main"
    /\ \E any_significant \in BOOLEAN :
          out' = box_plots_main(pc = "tested",
                                IF pc = "tested" THEN out.csv ELSE to_csv(<<>>),
                                any_significant)
    /\ pc' = IF out'.exc # "" THEN "raised" ELSE "plotted"
    /\ UNCHANGED <<files, idx, df_all, all_summaries, skipped, combined, ttest, quest,
                   call>>

\* main, line 281 (smoker_analysis.main, line 226): the descriptive statistics
\* of the table, which main asks for before the t-tests
ComputeDrinkingDescriptive ==
    /\ pc = "drinking" /\ combined.rows # <<>>
    /\ out' = compute_descriptive("compute_drinking_descriptive", combined,
                                  "DrinkingStatus")
    /\ pc' = IF out'.exc # "" THEN "raised" ELSE "described"
    /\ UNCHANGED <<files, idx, df_all, all_summaries, skipped, combined, ttest, quest,
                   call>>

ComputeSmokingDescriptive ==
    /\ pc = "smoking" /\ combined.rows # <<>>
    /\ out' = compute_descriptive("compute_smoking_descriptive", combined,
                                  "SmokingStatus")
    /\ pc' = IF out'.exc # "" THEN "raised" ELSE "described"
    /\ UNCHANGED <<files, idx, df_all, all_summaries, skipped, combined, ttest, quest,
                   call>>

NextStatus ==
    \/ ProcessCycle
    \/ Concat
    \/ PrepareGroups
    \/ RunTTests
    \/ ProcessWithDrinking
    \/ RunDrinkingTTests
    \/ ProcessWithSmoking
    \/ RunSmokingTTests
    \/ ComputeDrinkingDescriptive
    \/ ComputeSmokingDescriptive
    \/ RunModels
    \/ BoxPlots

SpecStatus == InitStatus /\ [][NextStatus]_vars

----------------------------------------------------------------------------
(* Claims on the pure functions, checked under SpecFn *)

IsCall(fn) == call.fn = fn

\* the source fields a marker is computed from
MarkerInputs(m) ==
    CASE m = "NLR" -> {"LBXWBCSI", "LBXNEPCT", "LBXLYPCT"}
      [] m = "MLR" -> {"LBXWBCSI", "LBXMOPCT", "LBXLYPCT"}
      [] m = "PLR" -> {"LBXWBCSI", "LBXPLTSI", "LBXLYPCT"}
      [] m = "SII" -> {"LBXWBCSI", "LBXNEPCT", "LBXPLTSI", "LBXLYPCT"}

\* every field the marker needs is a column of the row and holds a value
InputsPresent(row, m) ==
    \A c \in MarkerInputs(m) : HasCol(row, c) /\ ~IsNaN(row[c])

\* the lymphocyte count, white cells times percentage over 100, is not zero
DenominatorNonZero(row) ==
    ~IsZero(row["LBXWBCSI"]) /\ ~IsZero(row["LBXLYPCT"])

\* C1 (as claimed): a marker has a value iff every input it needs is present
\* and the lymphocyte denominator is non-zero; otherwise it is missing.
C1_MarkerPresentIffClaim ==
    IsCall("compute_markers") =>
        \A i \in 1..Len(MARKERS) :
            IF InputsPresent(call.arg, MARKERS[i]) /\ DenominatorNonZero(call.arg)
            THEN IsNum(call.ret[MARKERS[i]])
            ELSE IsNaN(call.ret[MARKERS[i]])

\* the zero-denominator case: every input of NLR present, lymphocyte
\* percentage zero, white cells and neutrophils not
C1_Witness ==
    /\ IsCall("compute_markers")
    /\ InputsPresent(call.arg, "NLR")
    /\ call.arg["LBXLYPCT"] = Num(0)
    /\ call.arg["LBXWBCSI"] = Num(4)
    /\ call.arg["LBXNEPCT"] = Num(50)

\* C2: categorize_amalgam returns "None" for 0, "Low" for 1..5, "Medium" for
\* 6..10, "High" above 10, and a missing category for a missing count.
C2_CategorizePartition ==
    IsCall("categorize_amalgam") =>
        IF IsNaN(call.arg) THEN call.ret = NaN
        ELSE /\ (call.arg.n = 0 => call.ret = Lab("None"))
             /\ (call.arg.n \in 1..5 => call.ret = Lab("Low"))
             /\ (call.arg.n \in 6..10 => call.ret = Lab("Medium"))
             /\ (call.arg.n > 10 => call.ret = Lab("High"))

C2_Witness ==
    /\ IsCall("categorize_amalgam")
    /\ call.arg = Num(5)
    /\ call.ret = Lab("Low")

\* C7 (as claimed): every age 0..19 gets "0-19", 20..39 "20-39", 40..59
\* "40-59", 60 and above "60+", and only a missing age a missing band.
C7_AgeBandsClaim ==
    IsCall("age_cut") =>
        IF IsNaN(call.arg) THEN call.ret = NaN
        ELSE /\ (call.arg.n \in 0..19 => call.ret = Lab("0-19"))
             /\ (call.arg.n \in 20..39 => call.ret = Lab("20-39"))
             /\ (call.arg.n \in 40..59 => call.ret = Lab("40-59"))
             /\ (call.arg.n >= 60 => call.ret = Lab("60+"))

C7_Witness ==
    /\ IsCall("age_cut")
    /\ call.arg = Num(0)

\* the weights are equal and positive, one per value
EqualPositive(series, weights) ==
    /\ Len(weights) = Len(series)
    /\ \A i \in 1..Len(weights) : weights[i] = weights[1] /\ weights[1].n > 0

\* the standard deviation of xs under the normalised weights w[i] / sum(w)
NormalisedStd(xs, w, mean) ==
    FSqrt(FSum([i \in 1..Len(xs) |->
                  FMul(FDiv(w[i], FSum(w)),
                       FMul(FSub(xs[i], mean), FSub(xs[i], mean)))]))

\* the four numbers built from a mean, a standard deviation and a count n:
\* mean, std and mean -/+ 1.96 * std / sqrt(n), each rounded to 3 decimals
StatsFrom(mean, std, n) ==
    [exc |-> "",
     mean |-> FRound(mean),
     std |-> FRound(std),
     lo |-> FRound(FSub(mean, FMul(Q(196, 100), FDiv(std, FSqrt(Num(n)))))),
     hi |-> FRound(FAdd(mean, FMul(Q(196, 100), FDiv(std, FSqrt(Num(n))))))]

\* C8: with equal positive weights weighted_stats returns the arithmetic mean
\* and mean -/+ 1.96 * std / sqrt(n), std the weight-normalised standard
\* deviation and n the number of values, each rounded to 3 decimals.
C8_EqualWeights ==
    (IsCall("weighted_stats") /\ EqualPositive(call.arg[1], call.arg[2])) =>
        LET xs == call.arg[1]
            amean == FDiv(FSum(xs), Num(Len(xs)))
        IN  call.ret = StatsFrom(amean, NormalisedStd(xs, call.arg[2], amean), Len(xs))

C8_Witness ==
    /\ IsCall("weighted_stats")
    /\ call.arg = <<<<Num(0), Num(0), Num(2)>>, <<Num(2), Num(2), Num(2)>>>>
    /\ call.ret.mean = Q(667, 1000)
    /\ call.ret.std = Q(943, 1000)
    /\ call.ret.lo # call.ret.mean

\* the weighted computation fails: the lengths differ or every weight is zero
WeightingFails(series, weights) ==
    \/ Len(weights) # Len(series)
    \/ \A i \in 1..Len(weights) : weights[i] = Num(0)

\* C9: when the weighted computation fails weighted_stats does not raise, it
\* returns the unweighted mean, the standard deviation from the unweighted
\* (n - 1 denominator) variance and the interval built from them.
C9_Fallback ==
    (IsCall("weighted_stats") /\ WeightingFails(call.arg[1], call.arg[2])) =>
        LET xs == call.arg[1]
            umean == FDiv(FSum(xs), Num(Len(xs)))
            uvar == FDiv(FSum([i \in 1..Len(xs) |->
                                 FMul(FSub(xs[i], umean), FSub(xs[i], umean))]),
                         Num(Len(xs) - 1))
        IN  call.ret = StatsFrom(umean, FSqrt(uvar), Len(xs))

C9_Witness ==
    /\ IsCall("weighted_stats")
    /\ call.arg = <<<<Num(0), Num(2)>>, <<Num(0), Num(0)>>>>
    /\ call.ret.exc = ""
    /\ call.ret.mean = Num(1)
    /\ call.ret.std = Q(1414, 1000)

----------------------------------------------------------------------------
(* Claims on process_cycles and analysis.main, checked under Spec *)

\* the rows of the per-cycle frames collected so far
FrameRows == Flatten([i \in 1..Len(df_all) |-> df_all[i].rows])

\* those of the cycle c
CycleRows(c) ==
    LET In(r) == r["Cycle"] = Lab(c)
    IN  SelectSeq(FrameRows, In)

\* the subject ids of a source table
Keys(t) == {t.rows[i]["SEQN"] : i \in 1..Len(t.rows)}

\* the loop has been through the j-th cycle of the registry
Processed(j) == j < idx

\* one of the three source tables of the cycle cannot be read
SourceFault(f) == ~f.cbc.ok \/ ~f.demo.ok \/ ~f.dental.ok

\* the number of amalgam-coded surfaces of the dental row of subject seqn
DentalCount(dental, seqn) ==
    LET d == CHOOSE i \in 1..Len(dental.rows) : dental.rows[i]["SEQN"] = seqn
    IN  Cardinality({c \in SurfaceCols \cap dental.cols :
                        dental.rows[d][c] = Num(2)})

\* C4: the rows of a processed cycle are the subjects present in both the
\* demographics and the hematology table, one row each; a subject without a
\* dental row has amalgam_surfaces missing, one with a dental row the count
\* of that row.
C4_MergedSubjects ==
    \A j \in 1..NumCycles :
        (Processed(j) /\ ~SourceFault(files[CYCLES[j]])) =>
            LET f == files[CYCLES[j]]
                rows == CycleRows(CYCLES[j])
            IN  /\ {rows[i]["SEQN"] : i \in 1..Len(rows)} = Keys(f.demo) \cap Keys(f.cbc)
                /\ Len(rows) = Cardinality(Keys(f.demo) \cap Keys(f.cbc))
                /\ \A i \in 1..Len(rows) :
                      IF rows[i]["SEQN"] \in Keys(f.dental)
                      THEN rows[i]["amalgam_surfaces"] =
                               Num(DentalCount(f.dental, rows[i]["SEQN"]))
                      ELSE IsNaN(rows[i]["amalgam_surfaces"])

C4_Witness ==
    /\ Processed(1)
    /\ Len(CycleRows(CYCLES[1])) = 2
    /\ IsNaN(CycleRows(CYCLES[1])[1]["amalgam_surfaces"])
    /\ CycleRows(CYCLES[1])[2]["amalgam_surfaces"] = Num(3)
    /\ Cardinality(Keys(files[CYCLES[1]].dental)) = 1

\* the summary rows of the cycle c
CycleSummaries(c) ==
    LET In(r) == r.Cycle = c
    IN  SelectSeq(all_summaries, In)

\* C5: a cycle with an unreadable source table contributes no rows and no
\* summaries; the loop still goes through every cycle of the registry, and
\* every other cycle has the rows its own three tables give.
C5_FaultyCycleIsolated ==
    /\ pc # "loop" => idx > NumCycles
    /\ \A j \in 1..NumCycles :
          Processed(j) =>
              IF SourceFault(files[CYCLES[j]])
              THEN /\ CycleRows(CYCLES[j]) = <<>>
                   /\ CycleSummaries(CYCLES[j]) = <<>>
              ELSE CycleRows(CYCLES[j]) =
                       build_frame(CYCLES[j], files[CYCLES[j]]).rows

C5_Witness ==
    /\ pc = "returned"
    /\ SourceFault(files[CYCLES[1]])
    /\ skipped = <<CYCLES[1]>>
    /\ Len(CycleRows(CYCLES[2])) = 2
    /\ CycleSummaries(CYCLES[2]) # <<>>

\* C6 (as claimed): whatever cycles are skipped, process_cycles returns; the
\* run never ends with an unhandled fault.
C6_AlwaysReturnsClaim == ~(pc = "raised" /\ combined = Unreadable)

\* every cycle of the registry was skipped and the loop has ended
C6_Witness ==
    /\ idx > NumCycles
    /\ Len(skipped) = NumCycles
    /\ pc # "loop"

\* the rows of the cycle that can enter a computation on the marker m: marker
\* and weight present, lymphocyte count not zero
EligibleRows(c, m) ==
    LET Ok(r) == /\ ~IsNaN(r[m]) /\ ~IsNaN(r["WTMEC2YR"])
                 /\ ~IsZero(r["Lympho"])
    IN  SelectSeq(CycleRows(c), Ok)

\* the rows of the combined table that can enter the t-test group g of the
\* stratum value v of the column col in the cycle c
EligibleGroup(c, col, v, g, m) ==
    {i \in 1..Len(combined.rows) :
        /\ combined.rows[i]["Cycle"] = Lab(c)
        /\ combined.rows[i][col] = v
        /\ combined.rows[i]["Amalgam Group"] = Lab(g)
        /\ ~IsNaN(combined.rows[i][m])
        /\ ~IsZero(combined.rows[i]["Lympho"])}

ComparisonOf(name) ==
    COMPARISONS[CHOOSE k \in 1..Len(COMPARISONS) : COMPARISONS[k].name = name]

MainTested == pc = "tested" /\ quest = NoQuest

\* C10 (as claimed): a subject with a zero lymphocyte count enters no summary
\* statistic and no t-test group of the four markers, and stays in the
\* combined table.
C10_ZeroLymphocyteClaim ==
    /\ \A s \in 1..Len(all_summaries) :
          all_summaries[s].SampleSize =
              Len(EligibleRows(all_summaries[s].Cycle, all_summaries[s].Marker))
    /\ MainTested =>
          \A t \in 1..Len(ttest) :
              /\ ttest[t].Group1n =
                     Cardinality(EligibleGroup(ttest[t].Cycle, ttest[t].Strata,
                                               ttest[t].Group,
                                               ComparisonOf(ttest[t].Comparison).g1,
                                               ttest[t].Marker))
              /\ ttest[t].Group2n =
                     Cardinality(EligibleGroup(ttest[t].Cycle, ttest[t].Strata,
                                               ttest[t].Group,
                                               ComparisonOf(ttest[t].Comparison).g2,
                                               ttest[t].Marker))
    /\ pc \in {"returned", "prepared", "tested"} =>
          Len(combined.rows) = Len(FrameRows)

\* a subject with a zero lymphocyte count in a cycle that has summaries and
\* t-test rows
C10_Witness ==
    /\ MainTested
    /\ ttest # <<>>
    /\ \E i \in 1..Len(combined.rows) :
          /\ IsZero(combined.rows[i]["Lympho"])
          /\ CycleSummaries(combined.rows[i]["Cycle"].s) # <<>>
          /\ \E t \in 1..Len(ttest) : ttest[t].Cycle = combined.rows[i]["Cycle"].s

----------------------------------------------------------------------------
(* Claim on the three t-test functions, checked under SpecStatus; the part *)
(* on run_t_tests, C3_GateMain, holds under Spec and SpecStatus            *)

\* the number of subjects of the cycle c with the value v in the column col,
\* of the exposure group g, whose marker m is present
ValidCount(c, col, v, g, m) ==
    Cardinality({i \in 1..Len(combined.rows) :
                    /\ combined.rows[i]["Cycle"] = Lab(c)
                    /\ combined.rows[i][col] = v
                    /\ combined.rows[i]["Amalgam Group"] = Lab(g)
                    /\ HasCol(combined.rows[i], m)
                    /\ ~IsNaN(combined.rows[i][m])})

\* the non-missing values of the column col among the subjects of the cycle c
ColValues(c, col) ==
    {combined.rows[i][col] :
        i \in {k \in 1..Len(combined.rows) :
                  /\ combined.rows[k]["Cycle"] = Lab(c)
                  /\ ~IsNaN(combined.rows[k][col])}}

\* the rows of the result table for one combination
MainHits(c, strata, v, k, m) ==
    {t \in 1..Len(ttest) :
        /\ ttest[t].Cycle = c /\ ttest[t].Strata = strata /\ ttest[t].Group = v
        /\ ttest[t].Comparison = COMPARISONS[k].name /\ ttest[t].Marker = m}

StatusHits(c, col, v, k, m) ==
    {t \in 1..Len(ttest) :
        /\ ttest[t].Cycle = c /\ ttest[t][col] = v
        /\ ttest[t].Comparison = COMPARISONS[k].name /\ ttest[t].Marker = m}

\* a row iff both groups hold at least 10 values, and it records the counts
GateHolds(hits, n1, n2) ==
    /\ hits # {} <=> (n1 >= 10 /\ n2 >= 10)
    /\ \A t \in hits : ttest[t].Group1n = n1 /\ ttest[t].Group2n = n2

\* run_t_tests: for every cycle, stratum variable, non-missing stratum value,
\* comparison and marker a row is emitted iff both groups hold at least 10
\* non-missing values, and the row records the two counts.
C3_GateMain ==
    MainTested =>
        \A c \in CycleSet, sv \in 1..Len(STRATA_VARS),
           k \in 1..Len(COMPARISONS), m \in 1..Len(MARKERS) :
            \A v \in ColValues(c, STRATA_VARS[sv]) :
                GateHolds(MainHits(c, STRATA_VARS[sv], v, k, MARKERS[m]),
                          ValidCount(c, STRATA_VARS[sv], v, COMPARISONS[k].g1, MARKERS[m]),
                          ValidCount(c, STRATA_VARS[sv], v, COMPARISONS[k].g2, MARKERS[m]))

C3_GateMainWitness ==
    /\ MainTested
    /\ \E t \in 1..Len(ttest) :
          /\ ttest[t].Group1n = 10 /\ ttest[t].Group2n = 10
          /\ ttest[t].Strata = "AgeGroup"

\* the call of run_drinking_ttests / run_smoking_ttests has ended
StatusTested(fn) == quest.fn = fn /\ pc \in {"tested", "raised"} /\ out = NoOut

StatusGate(col) ==
    \A c \in CycleSet, k \in 1..Len(COMPARISONS), m \in 1..Len(STATUS_MARKERS) :
        \A v \in ColValues(c, col) :
            GateHolds(StatusHits(c, col, v, k, STATUS_MARKERS[m]),
                      ValidCount(c, col, v, COMPARISONS[k].g1, STATUS_MARKERS[m]),
                      ValidCount(c, col, v, COMPARISONS[k].g2, STATUS_MARKERS[m]))

\* C3 (as claimed): in run_t_tests and in run_drinking_ttests and
\* run_smoking_ttests a result row is emitted for a combination iff both
\* exposure groups hold at least 10 non-missing marker values, and the row's
\* Group1 n and Group2 n are those counts.
C3_GateClaim ==
    /\ C3_GateMain
    /\ StatusTested("drinking") => StatusGate("DrinkingStatus")
    /\ StatusTested("smoking") => StatusGate("SmokingStatus")

\* the case of the claim in the drinking variant: both groups of the current
\* drinkers of a cycle hold 10 values of NLR, and the function has ended
C3_StatusWitness ==
    /\ StatusTested("drinking")
    /\ ValidCount(CYCLES[1], "DrinkingStatus", Lab("Current Drinker"), "None", "NLR") = 10
    /\ ValidCount(CYCLES[1], "DrinkingStatus", Lab("Current Drinker"), "Low", "NLR") = 10

----------------------------------------------------------------------------
(* Claim on run_models, checked under SpecStatus *)

\* the call of run_models has ended
ModelsRun == out.fn = "run_models"

\* the fits of the marker m have no usable row: the combined table has no
\* column m, or no row with the marker and every covariate present
NoUsableRows(m) ==
    \/ m \notin combined.cols
    \/ \A i \in 1..Len(combined.rows) :
          \E c \in {m, "amalgam_surfaces", "RIDAGEYR", "RIAGENDR", "RIDRETH1"} :
              IsNaN(combined.rows[i][c])

\* C11 (as claimed): a failing fit is caught at its marker: run_models ends
\* normally and writes the four tables, a marker without usable rows is absent
\* from the cubic and the logistic output, and every other marker is in the
\* cubic output.
C11_RunModelsClaim ==
    ModelsRun =>
        /\ pc # "raised"
        /\ out.written
        /\ \A k \in 1..Len(STATUS_MARKERS) :
              /\ STATUS_MARKERS[k] \in out.cubic <=> ~NoUsableRows(STATUS_MARKERS[k])
              /\ NoUsableRows(STATUS_MARKERS[k]) => STATUS_MARKERS[k] \notin out.logit

\* run_models has run on a table with usable rows for NLR and none for CRP
C11_Witness ==
    /\ ModelsRun
    /\ ~NoUsableRows("NLR")
    /\ NoUsableRows("CRP")
    /\ "NLR" \in out.cubic

----------------------------------------------------------------------------
(* Claim on the iteration order of the valid cycles, checked under SpecStatus *)

\* the cycles load_alcohol / load_smoking iterate over in the run
ValidCycles == IF quest.log.exists THEN quest.log.valid ELSE quest.registry

\* the table and the t-test rows a run of the same variant on the same files
\* gives when the set of valid cycles is iterated in the order o
RunWithOrder(o) ==
    LET q == [quest EXCEPT !.order = o]
        table == IF quest.fn = "drinking"
                 THEN process_with_drinking(pd_concat(df_all), q)
                 ELSE process_with_smoking(pd_concat(df_all), q)
        col == IF quest.fn = "drinking" THEN "DrinkingStatus" ELSE "SmokingStatus"
    IN  [combined |-> table,
         ttest |-> IF table.rows = <<>> \/ status_ttests_exc(table, col) # ""
                   THEN <<>> ELSE status_ttests(table, col)]

\* C12: a second run on the same input tables gives the same result tables,
\* row by row, in whatever order it iterates the set of valid cycles.
C12_OrderIndependent ==
    quest.fn # "" =>
        \A o \in Perms(ValidCycles) :
            /\ RunWithOrder(o).combined = combined
            /\ pc = "tested" => RunWithOrder(o).ttest = ttest

\* a run that iterated two cycles in the reverse of the registry order, both
\* with a questionnaire file, and classified subjects of both
C12_Witness ==
    /\ quest.fn = "drinking"
    /\ quest.order = <<CYCLES[2], CYCLES[1]>>
    /\ quest.tables[CYCLES[1]].ok /\ quest.tables[CYCLES[2]].ok
    /\ \A c \in {CYCLES[1], CYCLES[2]} :
          \E i \in 1..Len(combined.rows) :
              /\ combined.rows[i]["Cycle"] = Lab(c)
              /\ ~IsNaN(combined.rows[i]["DrinkingStatus"])

----------------------------------------------------------------------------
(* Claims on the rows of run_t_tests, checked under Spec *)

\* the exposure level a comparison tests the "None" group against
SecondLevel(name) ==
    CASE name = "None vs Low" -> "Low"
      [] name = "None vs Medium" -> "Medium"
      [] name = "None vs High" -> "High"

\* the key of a result row
RowKey(t) ==
    <<ttest[t].Cycle, ttest[t].Strata, ttest[t].Group, ttest[t].Marker,
      ttest[t].Comparison>>

\* C13: every row of run_t_tests compares the "None" group, as group 1, with
\* the Low, Medium or High group, and no two rows have the same (cycle,
\* stratum variable, stratum value, marker, comparison) key.
C13_CanonicalComparisons ==
    MainTested =>
        /\ \A t \in 1..Len(ttest) :
              /\ ttest[t].Comparison \in
                     {"None vs Low", "None vs Medium", "None vs High"}
              /\ ttest[t].Group1n =
                     ValidCount(ttest[t].Cycle, ttest[t].Strata, ttest[t].Group,
                                "None", ttest[t].Marker)
              /\ ttest[t].Group2n =
                     ValidCount(ttest[t].Cycle, ttest[t].Strata, ttest[t].Group,
                                SecondLevel(ttest[t].Comparison), ttest[t].Marker)
        /\ \A t1, t2 \in 1..Len(ttest) : RowKey(t1) = RowKey(t2) => t1 = t2

\* a cycle with all four exposure levels large enough: the three comparisons
\* each give rows
C13_Witness ==
    /\ MainTested
    /\ \A name \in {"None vs Low", "None vs Medium", "None vs High"} :
          \E t \in 1..Len(ttest) :
              /\ ttest[t].Comparison = name
              /\ ttest[t].Group1n = 10 /\ ttest[t].Group2n = 10
    /\ ValidCount(CYCLES[1], "Gender", Lab("Male"), "Low", "NLR") = 10
    /\ ValidCount(CYCLES[1], "Gender", Lab("Male"), "Medium", "NLR") = 10

\* the value is a label of the lookup table, not a raw code
IsLabel(v) == v.k = "str"

\* C14 (as claimed): an unmapped sex or race code stays in the Gender / Race
\* column as the raw code, and no row of run_t_tests has such a raw code as
\* its stratum value.
C14_UnmappedExcludedClaim ==
    (pc \in {"prepared", "tested"} /\ quest = NoQuest) =>
        /\ \A i \in 1..Len(combined.rows) :
              /\ combined.rows[i]["RIAGENDR"] \notin {Num(1), Num(2)} =>
                     combined.rows[i]["Gender"] = combined.rows[i]["RIAGENDR"]
              /\ combined.rows[i]["RIDRETH1"] \notin {Num(c) : c \in 1..5} =>
                     combined.rows[i]["Race"] = combined.rows[i]["RIDRETH1"]
        /\ pc = "tested" =>
              \A t \in 1..Len(ttest) :
                  ttest[t].Strata \in {"Gender", "Race"} => IsLabel(ttest[t].Group)

\* the t-tests have run on a cycle whose subjects have the sex code 3, with
\* 10 of them without amalgam and 10 with a low count
C14_Witness ==
    /\ MainTested
    /\ ValidCount(CYCLES[1], "Gender", Num(3), "None", "NLR") = 10
    /\ ValidCount(CYCLES[1], "Gender", Num(3), "Low", "NLR") = 10

\* the subject of row i has no value for the stratification variable sv
MissingStratum(i, sv) == IsNaN(combined.rows[i][sv])

\* C17: prepare_groups returns as many rows as it received; no row of
\* run_t_tests has a missing stratum value, so a subject without a value for a
\* variable is in no group of that variable; and for every other variable
\* whose value the subject has, the subject counts in the groups of that value:
\* a row is emitted iff both groups, the subject included, hold at least 10
\* values, and records these counts.
C17_MissingStratum ==
    (pc \in {"prepared", "tested"} /\ quest = NoQuest) =>
        /\ Len(combined.rows) = Len(FrameRows)
        /\ pc = "tested" =>
              /\ \A t \in 1..Len(ttest) : ~IsNaN(ttest[t].Group)
              /\ \A i \in 1..Len(combined.rows), sv, other \in 1..Len(STRATA_VARS) :
                    (/\ MissingStratum(i, STRATA_VARS[sv])
                     /\ ~MissingStratum(i, STRATA_VARS[other])) =>
                        \A k \in 1..Len(COMPARISONS), m \in 1..Len(MARKERS) :
                            GateHolds(
                                MainHits(combined.rows[i]["Cycle"].s, STRATA_VARS[other],
                                         combined.rows[i][STRATA_VARS[other]], k,
                                         MARKERS[m]),
                                ValidCount(combined.rows[i]["Cycle"].s, STRATA_VARS[other],
                                           combined.rows[i][STRATA_VARS[other]],
                                           COMPARISONS[k].g1, MARKERS[m]),
                                ValidCount(combined.rows[i]["Cycle"].s, STRATA_VARS[other],
                                           combined.rows[i][STRATA_VARS[other]],
                                           COMPARISONS[k].g2, MARKERS[m]))

\* a subject without amalgam and without a sex code is the tenth of its race
\* group and leaves the Male group at nine: rows for Race, none for Gender
C17_Witness ==
    /\ MainTested
    /\ \E i \in 1..Len(combined.rows) :
          /\ MissingStratum(i, "Gender")
          /\ combined.rows[i]["Amalgam Group"] = Lab("None")
          /\ combined.rows[i]["Cycle"] = Lab(CYCLES[1])
    /\ ValidCount(CYCLES[1], "Gender", Lab("Male"), "None", "NLR") = 9
    /\ ValidCount(CYCLES[1], "Race", Lab("Non-Hispanic White"), "None", "NLR") = 10
    /\ \E t \in 1..Len(ttest) :
          ttest[t].Cycle = CYCLES[1] /\ ttest[t].Strata = "Race" /\ ttest[t].Group1n = 10
    /\ \A t \in 1..Len(ttest) : ttest[t].Cycle = CYCLES[1] => ttest[t].Strata # "Gender"

----------------------------------------------------------------------------
(* Claims on the combined table of process_cycles, checked under Spec *)

\* process_cycles has returned and nothing has changed its table yet
Returned == pc = "returned"

\* the position of a cycle label in the registry
RegistryIndex(c) == CHOOSE j \in 1..Len(ALL_CYCLES) : Lab(ALL_CYCLES[j]) = c

\* the rows of the table are in the order of the registry, cycle by cycle
RegistryOrder ==
    \A i, j \in 1..Len(combined.rows) :
        i < j => RegistryIndex(combined.rows[i]["Cycle"])
                     <= RegistryIndex(combined.rows[j]["Cycle"])

\* the demographics row of the subject seqn in the files of the cycle c
DemoRowOf(c, seqn) ==
    files[c].demo.rows[CHOOSE d \in 1..Len(files[c].demo.rows) :
                           files[c].demo.rows[d]["SEQN"] = seqn]

\* every row carries the label of a registry cycle whose demographics and
\* hematology tables hold the subject, and the demographic fields of that
\* cycle's row
TaggedWithSource ==
    \A i \in 1..Len(combined.rows) :
        \E c \in CycleSet :
            /\ combined.rows[i]["Cycle"] = Lab(c)
            /\ files[c].demo.ok /\ files[c].cbc.ok
            /\ combined.rows[i]["SEQN"] \in Keys(files[c].demo) \cap Keys(files[c].cbc)
            /\ \A col \in files[c].demo.cols :
                  combined.rows[i][col] = DemoRowOf(c, combined.rows[i]["SEQN"])[col]

\* the rows of the combined table are in registry order and tagged with the
\* cycle they were merged from
C18_OrderAndTag == Returned => (RegistryOrder /\ TaggedWithSource)

\* no row of the table belongs to a cycle reported as skipped
SkippedOmitted ==
    \A s \in 1..Len(skipped) :
        \A i \in 1..Len(combined.rows) : combined.rows[i]["Cycle"] # Lab(skipped[s])

\* C18 (as claimed): in the combined table the rows appear cycle by cycle in
\* registry order, the skipped cycles left out, and every row's Cycle is the
\* cycle whose source tables it was merged from.
C18_RegistryOrderClaim == Returned => (RegistryOrder /\ SkippedOmitted /\ TaggedWithSource)

\* two cycles both gave rows, and the second of them was reported as skipped
C18_Witness ==
    /\ Returned
    /\ combined.rows # <<>>
    /\ combined.rows[1]["Cycle"] = Lab(CYCLES[1])
    /\ combined.rows[Len(combined.rows)]["Cycle"] = Lab(CYCLES[NumCycles])
    /\ skipped = <<CYCLES[NumCycles]>>

----------------------------------------------------------------------------
(* Claim on box_plots.main, checked under SpecStatus *)

\* the run of box_plots.main has ended
PlotsRun == out.fn = "box_plots.main"

\* C15 (as claimed): with the result file absent, and with the file of a run
\* in which no comparison passed the gate, box_plots.main ends normally and
\* makes no plot.
C15_BoxPlotsTolerantClaim ==
    (PlotsRun /\ out.csv \in {"absent", "empty"}) => (pc = "plotted" /\ out.exc = "")

\* box_plots.main has run on the file analysis.main wrote from an empty
\* result table
C15_Witness ==
    /\ PlotsRun
    /\ out.csv = "empty"
    /\ ttest = <<>>
    /\ combined.rows # <<>>

----------------------------------------------------------------------------
(* Claim on the summary rows, checked under SpecStatus; the part on         *)
(* process_cycles, C16_SummaryMain, holds under Spec and SpecStatus         *)

\* the subject of the row has the marker m and the sampling weight
HasMarkerAndWeight(r, m) ==
    /\ HasCol(r, m) /\ ~IsNaN(r[m])
    /\ HasCol(r, "WTMEC2YR") /\ ~IsNaN(r["WTMEC2YR"])

\* the number of such subjects among the rows of the cycle c
SubjectCount(c, m) ==
    Cardinality({i \in 1..Len(CycleRows(c)) : HasMarkerAndWeight(CycleRows(c)[i], m)})

\* the summary rows of process_cycles for the cycle c and the marker m
SummaryHits(c, m) ==
    {s \in 1..Len(all_summaries) :
        all_summaries[s].Cycle = c /\ all_summaries[s].Marker = m}

\* process_cycles: for every processed cycle and marker exactly one summary
\* row iff a subject has marker and weight, none otherwise, and the row's
\* Sample Size is the number of these subjects.
C16_SummaryMain ==
    \A j \in 1..NumCycles, k \in 1..Len(MARKERS) :
        Processed(j) =>
            /\ SummaryHits(CYCLES[j], MARKERS[k]) # {}
                  <=> SubjectCount(CYCLES[j], MARKERS[k]) > 0
            /\ Cardinality(SummaryHits(CYCLES[j], MARKERS[k])) <= 1
            /\ \A s \in SummaryHits(CYCLES[j], MARKERS[k]) :
                  all_summaries[s].SampleSize = SubjectCount(CYCLES[j], MARKERS[k])

C16_SummaryMainWitness ==
    /\ Processed(1)
    /\ SubjectCount(CYCLES[1], "NLR") = 20
    /\ SummaryHits(CYCLES[1], "NLR") # {}

\* the call of compute_drinking_descriptive / compute_smoking_descriptive has
\* ended
Described(fn) == out.fn = fn

\* the subjects of one (cycle, status, exposure group) with marker and weight
GroupCount(c, col, v, g, m) ==
    Cardinality({i \in 1..Len(combined.rows) :
                    /\ combined.rows[i]["Cycle"] = Lab(c)
                    /\ combined.rows[i][col] = v
                    /\ combined.rows[i]["Amalgam Group"] = Lab(g)
                    /\ HasMarkerAndWeight(combined.rows[i], m)})

DescHits(c, col, v, g, m) ==
    {s \in 1..Len(out.rows) :
        /\ out.rows[s].Cycle = c /\ out.rows[s][col] = v
        /\ out.rows[s].AmalgamGroup = g /\ out.rows[s].Marker = m}

StatusSummary(col) ==
    \A c \in CycleSet, g \in {"None", "Low", "Medium", "High"},
       m \in 1..Len(STATUS_MARKERS) :
        \A v \in ColValues(c, col) :
            /\ DescHits(c, col, v, g, STATUS_MARKERS[m]) # {}
                  <=> GroupCount(c, col, v, g, STATUS_MARKERS[m]) > 0
            /\ \A s \in DescHits(c, col, v, g, STATUS_MARKERS[m]) :
                  out.rows[s].SampleSize = GroupCount(c, col, v, g, STATUS_MARKERS[m])

\* C16 (as claimed): a summary row is emitted for a (cycle, marker) pair, and
\* for a (cycle, status, exposure group, marker) group in the drinking and
\* smoking variants, iff at least one subject of the group has marker and
\* weight; its Sample Size is the number of these subjects, never zero.
C16_SummaryRowsClaim ==
    /\ C16_SummaryMain
    /\ Described("compute_drinking_descriptive") => StatusSummary("DrinkingStatus")
    /\ Described("compute_smoking_descriptive") => StatusSummary("SmokingStatus")

\* compute_drinking_descriptive has run on a table with 10 current drinkers
\* without amalgam in the first cycle, NLR and weight present
C16_Witness ==
    /\ Described("compute_drinking_descriptive")
    /\ GroupCount(CYCLES[1], "DrinkingStatus", Lab("Current Drinker"), "None", "NLR") = 10

----------------------------------------------------------------------------
(* Claim on the subject keys, checked under SpecStatus *)

\* the (subject id, cycle) keys of a sequence of rows, in order
KeySeq(rows) == [i \in 1..Len(rows) |-> <<rows[i]["SEQN"], rows[i]["Cycle"]>>]

\* every source table of every cycle holds each subject id at most once
UniqueSourceIds ==
    \A c \in CycleSet, t \in {"demo", "cbc", "dental"} :
        \A i, j \in 1..Len(files[c][t].rows) :
            files[c][t].rows[i]["SEQN"] = files[c][t].rows[j]["SEQN"] => i = j

\* the same for the questionnaire tables the variant read
UniqueQuestIds ==
    \A c \in DOMAIN quest.tables :
        \A i, j \in 1..Len(quest.tables[c].rows) :
            quest.tables[c].rows[i]["SEQN"] = quest.tables[c].rows[j]["SEQN"] => i = j

\* the rows of the table of process_cycles that belong to a valid cycle
BaseKeys ==
    LET Valid(key) == \E c \in ValidCycles : key[2] = Lab(c)
    IN  SelectSeq(KeySeq(FrameRows), Valid)

\* C19: with subject ids unique within each source table, the combined table
\* holds each (subject id, cycle) pair at most once, a subject id present in
\* two cycles has a row for each, and the table of process_with_drinking /
\* process_with_smoking has exactly the rows of the base table that belong to
\* a valid cycle, in the same order.
C19_UniqueKeys ==
    /\ (pc = "returned" /\ UniqueSourceIds) =>
          /\ \A i, j \in 1..Len(combined.rows) :
                KeySeq(combined.rows)[i] = KeySeq(combined.rows)[j] => i = j
          /\ \A c \in CycleSet :
                \A id \in Keys(files[c].demo) \cap Keys(files[c].cbc) :
                    (files[c].demo.ok /\ files[c].cbc.ok /\ files[c].dental.ok) =>
                        \E i \in 1..Len(combined.rows) :
                            KeySeq(combined.rows)[i] = <<id, Lab(c)>>
    /\ (quest.fn # "" /\ UniqueSourceIds /\ UniqueQuestIds) =>
          KeySeq(combined.rows) = BaseKeys

\* subject 1 is in both cycles and both cycles have a questionnaire file that
\* holds it: the joined table has the two rows of the base table
C19_Witness ==
    /\ quest.fn = "drinking"
    /\ quest.tables[CYCLES[1]].ok /\ quest.tables[CYCLES[2]].ok
    /\ KeySeq(combined.rows) = <<<<Num(1), Lab(CYCLES[1])>>, <<Num(1), Lab(CYCLES[2])>>>>
    /\ ~IsNaN(combined.rows[1]["DrinkingStatus"])
    /\ ~IsNaN(combined.rows[2]["DrinkingStatus"])

----------------------------------------------------------------------------
(* Claim on fit_logistic, checked under SpecFn *)

\* the values of the marker in the rows of the argument that have every
\* required field
KeptValues ==
    LET Complete(r) ==
            \A c \in {"time", "NLR", "amalgam_surfaces", "RIDAGEYR", "RIAGENDR",
                      "RIDRETH1"} : ~IsNaN(r[c])
        kept == SelectSeq(call.arg.rows, Complete)
    IN  [i \in 1..Len(kept) |-> kept[i]["NLR"]]

\* the number of values of xs below x, and not above x
CountBelow(xs, x) == Cardinality({i \in 1..Len(xs) : FLess(xs[i], x)})

CountUpTo(xs, x) == Cardinality({i \in 1..Len(xs) : FLeq(xs[i], x)})

\* the value of rank r (1 is the smallest) of xs
Ranked(xs, r) ==
    xs[CHOOSE i \in 1..Len(xs) : CountBelow(xs, xs[i]) < r /\ r <= CountUpTo(xs, xs[i])]

\* the median of xs: the value of the middle rank, or the mean of the two
\* values of the middle ranks
MedianOf(xs) ==
    IF Len(xs) % 2 = 1 THEN Ranked(xs, (Len(xs) + 1) \div 2)
    ELSE FDiv(FAdd(Ranked(xs, Len(xs) \div 2), Ranked(xs, Len(xs) \div 2 + 1)), Num(2))

\* C20: fit_logistic returns no model, and does not raise, when no row has
\* every required field; in a model it returns, the outcome of a kept row is 1
\* iff its marker value is strictly above the median of the kept rows, and at
\* most half of the outcomes are 1.
C20_MedianSplit ==
    IsCall("fit_logistic") =>
        /\ call.ret.exc = ""
        /\ KeptValues = <<>> => call.ret.model = "None"
        /\ call.ret.model = "Logit" =>
              /\ Len(call.ret.binary) = Len(KeptValues)
              /\ \A i \in 1..Len(KeptValues) :
                    call.ret.binary[i] =
                        IF FLess(MedianOf(KeptValues), KeptValues[i]) THEN 1 ELSE 0
              /\ 2 * Cardinality({i \in 1..Len(KeptValues) : call.ret.binary[i] = 1})
                     <= Len(KeptValues)

\* three rows, the largest marker value in a row that is dropped for its
\* missing age: the median of the two kept values 0 and 2 is 1
C20_Witness ==
    /\ IsCall("fit_logistic")
    /\ Len(call.arg.rows) = 3
    /\ KeptValues = <<Num(0), Num(2)>>
    /\ Column(call.arg.rows, "NLR") = <<Num(0), Num(2), Num(2)>>
    /\ call.ret.model = "Logit"
    /\ call.ret.binary = <<0, 1>>

\* a call on a table none of whose rows is complete
C20_EmptyWitness ==
    /\ IsCall("fit_logistic")
    /\ Len(call.arg.rows) = 2
    /\ KeptValues = <<>>
    /\ call.ret.model = "None"

----------------------------------------------------------------------------
(* Claim on the skipped cycles of process_cycles, checked under Spec *)

\* the cycle c was reported by print("Skipped ...")
ReportedSkipped(c) == \E s \in 1..Len(skipped) : skipped[s] = c

\* the rows of the combined table that carry the label of the cycle c
CombinedRowsOf(c) ==
    LET In(r) == r["Cycle"] = Lab(c)
    IN  SelectSeq(combined.rows, In)

\* the fault of the cycle is raised by the summary statistics (line 82), after
\* lines 60-79 have merged its tables and appended the frame
StatsFault(f) == ~SourceFault(f) /\ stats_exc(build_frame("", f)) # ""

\* C22 (as claimed): after process_cycles, at whatever step the fault of a
\* cycle occurs, the cycle is reported as skipped iff it contributes no rows to
\* the combined table, and a cycle reported as skipped contributes no summary
\* rows; a cycle is never both reported as skipped and present in the outputs.
C22_SkippedIffAbsentClaim ==
    Returned =>
        \A c \in CycleSet :
            /\ ReportedSkipped(c) <=> CombinedRowsOf(c) = <<>>
            /\ ReportedSkipped(c) => CycleSummaries(c) = <<>>

\* the summary statistics of the last cycle raised: the cycle is reported as
\* skipped, has no summary rows, and its rows are in the combined table
C22_Witness ==
    /\ Returned
    /\ StatsFault(files[CYCLES[NumCycles]])
    /\ ReportedSkipped(CYCLES[NumCycles])
    /\ CycleSummaries(CYCLES[NumCycles]) = <<>>
    /\ CombinedRowsOf(CYCLES[NumCycles]) # <<>>

\* a skipped cycle never leaves summary rows: the only fault past the append
\* is raised before the first summary row of the cycle is built
C22_NoSummaryOfSkipped ==
    \A c \in CycleSet : ReportedSkipped(c) => CycleSummaries(c) = <<>>

----------------------------------------------------------------------------
(* Claim on the result rows of run_t_tests, checked under SpecFn *)

\* the flag of the row is the comparison of the p-value ttest_ind returned
C21_FlagOfReturned ==
    IsCall("test_fields") => (call.ret.Significant <=> FLess(call.arg[2], ALPHA))

\* C21 (as claimed): in a result row the Significant flag agrees with the
\* p-value recorded in the row: Significant is true iff the recorded p-value
\* (rounded to 5 decimals) is below 0.05.
C21_FlagAgreesClaim ==
    IsCall("test_fields") => (call.ret.Significant <=> FLess(call.ret.pvalue, ALPHA))

\* the two disagree only where the rounding lifts a p-value below the level
\* onto the level itself
C21_DisagreeAtLevelOnly ==
    (IsCall("test_fields") /\ ~(call.ret.Significant <=> FLess(call.ret.pvalue, ALPHA)))
        => (call.ret.Significant /\ call.ret.pvalue = ALPHA)

\* a p-value of 0.049996: recorded as 0.05, flagged significant
C21_Witness ==
    /\ IsCall("test_fields")
    /\ call.arg[2] = Q(49996, 1000000)
    /\ call.ret.pvalue = ALPHA
    /\ call.ret.Significant

====
